---- MODULE Spec2Model ----
(***************************************************************************)
(* A model of the ciscoisesdk resource wrappers (api/v3_0_0, api/v3_1_0),  *)
(* of the list generators built on get_next_page and of the JSON Schema    *)
(* request validators (tests/models/validators).                           *)
(*                                                                         *)
(* One wrapper method invocation is one action.  The body of a method is   *)
(* the composition of the stages every generated method goes through, in   *)
(* source order: header checks and merge, payload type check, path and     *)
(* query checks, query parameters, body assembly, validation, the session  *)
(* call, the object factory.  Each invocation leaves in `last` the record  *)
(* of what it did: the calls it made on the injected validator, session    *)
(* and factory, in order, and how it ended.  An alias method is an action   *)
(* of its own, which records next to its run the run of the method it      *)
(* names; the constructors of the wrappers are the actions of SpecNew, the *)
(* constructors of the validators those of SpecCompile.                    *)
(***************************************************************************)
EXTENDS Integers, Sequences, FiniteSets, TLC

VARIABLES
    api,              \* the resource wrapper: its class, what it was given, its attributes
    session_headers,  \* RestSession.headers: the session's default headers
    calls,            \* number of wrapper method invocations made so far
    last,             \* record of the most recent wrapper method invocation
    gen,              \* the list generator object (get_next_page frame)
    server,           \* the remote list resource: page -> page named by its nextPage.href
    vcheck,           \* record of the most recent validator.validate() call
    jsd               \* the validator objects: _validator and the compile calls made

vars == <<api, session_headers, calls, last, gen, server, vcheck, jsd>>

-----------------------------------------------------------------------------
(* Bounds of the model *)

MaxCalls == 2       \* wrapper invocations per behaviour
MaxPages == 3       \* pages the remote list resource holds
MaxRequests == 4    \* list requests one generator may issue (caps cyclic links)

-----------------------------------------------------------------------------
(* Python values: None, str, int, dict (string keys). *)

EmptyFn == [k \in {} |-> 0]

None == [t |-> "None", s |-> "", d |-> EmptyFn]
Str(x) == [t |-> "str", s |-> x, d |-> EmptyFn]
PyInt(x) == [t |-> "int", s |-> x, d |-> EmptyFn]
Dict(f) == [t |-> "dict", s |-> "", d |-> f]

EmptyDict == Dict(EmptyFn)

\* a RestSession object
RestSession == [t |-> "RestSession", s |-> "", d |-> EmptyFn]

\* a one-entry and a two-entry dict literal
D1(k, v) == Dict([x \in {k} |-> v])
D2(k1, v1, k2, v2) == Dict([x \in {k1, k2} |-> IF x = k1 THEN v1 ELSE v2])

\* Python truthiness of a value: None, '' and {} are falsy
Truthy(v) ==
    CASE v.t = "None" -> FALSE
      [] v.t = "str" -> v.s # ""
      [] v.t = "dict" -> DOMAIN v.d # {}
      [] OTHER -> TRUE

\* dict.update: the right operand's keys win
Update(f, g) ==
    [k \in DOMAIN f \cup DOMAIN g |-> IF k \in DOMAIN g THEN g[k] ELSE f[k]]

-----------------------------------------------------------------------------
(* Helpers of ciscoisesdk.utils *)

\* check_type(obj, acceptable_types, may_be_none): TRUE when it does not raise
check_type(obj, types, may_be_none) ==
    \/ obj.t \in types
    \/ may_be_none /\ obj.t = "None"

\* dict_from_items_with_values: drops every item whose value is None
dict_from_items_with_values(f) ==
    [k \in {x \in DOMAIN f : f[x].t # "None"} |-> f[k]]

\* dict_of_str: every value converted with str()
dict_of_str(f) ==
    [k \in DOMAIN f |-> Str(IF f[k].t = "None" THEN "None" ELSE f[k].s)]

\* apply_path_params: URL.format(**path_params) on a tokenised template
Brace(k) == "{" \o k \o "}"

apply_path_params(URL, path_params) ==
    [i \in DOMAIN URL |->
        IF \E k \in DOMAIN path_params : URL[i] = Brace(k)
        THEN (path_params[CHOOSE k \in DOMAIN path_params : URL[i] = Brace(k)]).s
        ELSE URL[i]]

-----------------------------------------------------------------------------
(* The generated methods: what differs from one method to the next *)

\* header type checks of the OpenAPI (policy) wrappers and of the ERS wrappers:
\* header name and whether its value may be None
PolicyHeaderChecks == {[name |-> "X-Request-ID", may_be_none |-> TRUE]}

ErsHeaderChecks ==
    {[name |-> "Content-Type", may_be_none |-> FALSE],
     [name |-> "Accept", may_be_none |-> FALSE],
     [name |-> "ERS-Media-Type", may_be_none |-> TRUE],
     [name |-> "X-CSRF-TOKEN", may_be_none |-> TRUE]}

\* an entry of path_params, of _params or of the body: API key and Python argument
KA(key, arg) == [key |-> key, arg |-> arg]

\* a type-checked query argument: API key, Python argument and acceptable types
KT(key, arg, types) == [key |-> key, arg |-> arg, types |-> types]

NoBody ==
    [has_body |-> FALSE, wrapper |-> "", body |-> <<>>, validator |-> ""]

get_device_admin_policy_by_id_authorization_rule_list_def ==
    [verb |-> "get",
     e_url |-> <<"/v1/policy/device-admin/policy-set/", "{policyId}", "/authorization">>,
     path |-> <<KA("policyId", "policy_id")>>,
     query |-> <<>>,
     checks |-> PolicyHeaderChecks,
     payload |-> NoBody,
     model |-> "bpm_e4ac2543c3b53b5982168169f0b29b4_v3_0_0"]

create_device_admin_policy_by_id_authorization_rule_def ==
    [verb |-> "post",
     e_url |-> <<"/v1/policy/device-admin/policy-set/", "{policyId}", "/authorization">>,
     path |-> <<KA("policyId", "policy_id")>>,
     query |-> <<>>,
     checks |-> PolicyHeaderChecks,
     payload |-> [has_body |-> TRUE, wrapper |-> "",
                  body |-> <<KA("commands", "commands"), KA("link", "link"),
                             KA("profile", "profile"), KA("rule", "rule")>>,
                  validator |-> "jsd_a5fd2b5d5306b9941387f400c7a0_v3_0_0"],
     model |-> "bpm_a5fd2b5d5306b9941387f400c7a0_v3_0_0"]

delete_device_admin_policy_by_id_authorization_rule_by_id_def ==
    [verb |-> "delete",
     e_url |-> <<"/v1/policy/device-admin/policy-set/", "{policyId}", "/authorization/", "{ruleId}">>,
     path |-> <<KA("policyId", "policy_id"), KA("ruleId", "rule_id")>>,
     query |-> <<>>,
     checks |-> PolicyHeaderChecks,
     payload |-> NoBody,
     model |-> "bpm_e7979abd11155f12b1336bbf02a99687_v3_0_0"]

get_byod_portal_by_id_def ==
    [verb |-> "get",
     e_url |-> <<"/ers/config/byodportal/", "{id}">>,
     path |-> <<KA("id", "id")>>,
     query |-> <<>>,
     checks |-> ErsHeaderChecks,
     payload |-> NoBody,
     model |-> "bpm_effdf30a3e3a5781ba1f5cf833395359_v3_1_0"]

get_byod_portal_def ==
    [verb |-> "get",
     e_url |-> <<"/ers/config/byodportal">>,
     path |-> <<>>,
     query |-> <<KT("page", "page", {"int", "str", "list"}),
                 KT("size", "size", {"int", "str", "list"}),
                 KT("sortasc", "sortasc", {"str"}),
                 KT("sortdsc", "sortdsc", {"str"}),
                 KT("filter", "filter", {"str", "list", "set", "tuple"}),
                 KT("filterType", "filter_type", {"str"})>>,
     checks |-> ErsHeaderChecks,
     payload |-> NoBody,
     model |-> "bpm_a23b580495514394b125800e073c9a_v3_1_0"]

create_byod_portal_def ==
    [verb |-> "post",
     e_url |-> <<"/ers/config/byodportal">>,
     path |-> <<>>,
     query |-> <<>>,
     checks |-> ErsHeaderChecks,
     payload |-> [has_body |-> TRUE, wrapper |-> "BYODPortal",
                  body |-> <<KA("id", "id"), KA("name", "name"),
                             KA("description", "description"),
                             KA("portalType", "portal_type"),
                             KA("portalTestUrl", "portal_test_url"),
                             KA("settings", "settings"),
                             KA("customizations", "customizations")>>,
                  validator |-> "jsd_afcce33ec863567f94f3b9b73719ff8d_v3_1_0"],
     model |-> "bpm_afcce33ec863567f94f3b9b73719ff8d_v3_1_0"]

get_user_groups_def ==
    [verb |-> "put",
     e_url |-> <<"/ers/config/activedirectory/", "{id}", "/getUserGroups">>,
     path |-> <<KA("id", "id")>>,
     query |-> <<>>,
     checks |-> ErsHeaderChecks,
     payload |-> [has_body |-> TRUE, wrapper |-> "OperationAdditionalData",
                  body |-> <<KA("additionalData", "additional_data")>>,
                  validator |-> "jsd_b839d4dee9b958e48ccef056603e253f_v3_1_0"],
     model |-> "bpm_b839d4dee9b958e48ccef056603e253f_v3_1_0"]

get_active_directory_def ==
    [verb |-> "get",
     e_url |-> <<"/ers/config/activedirectory">>,
     path |-> <<>>,
     query |-> <<KT("page", "page", {"int", "str", "list"}),
                 KT("size", "size", {"int", "str", "list"})>>,
     checks |-> ErsHeaderChecks,
     payload |-> NoBody,
     model |-> "bpm_c8dbec9679d453f78cb47d894c507a7b_v3_1_0"]

get_network_access_conditions_def ==
    [verb |-> "get",
     e_url |-> <<"/api/v1/policy/network-access/condition">>,
     path |-> <<>>,
     query |-> <<>>,
     checks |-> PolicyHeaderChecks,
     payload |-> NoBody,
     model |-> "bpm_df4fb303a3e5661ba12058f18b225af_v3_1_0"]

update_network_access_condition_by_id_def ==
    [verb |-> "put",
     e_url |-> <<"/api/v1/policy/network-access/condition/", "{id}">>,
     path |-> <<KA("id", "id")>>,
     query |-> <<>>,
     checks |-> PolicyHeaderChecks,
     payload |-> [has_body |-> TRUE, wrapper |-> "",
                  body |-> <<KA("conditionType", "condition_type"),
                             KA("isNegate", "is_negate"), KA("link", "link"),
                             KA("description", "description"), KA("id", "id"),
                             KA("name", "name"),
                             KA("attributeName", "attribute_name"),
                             KA("attributeValue", "attribute_value"),
                             KA("dictionaryName", "dictionary_name"),
                             KA("dictionaryValue", "dictionary_value"),
                             KA("operator", "operator"), KA("children", "children"),
                             KA("datesRange", "dates_range"),
                             KA("datesRangeException", "dates_range_exception"),
                             KA("hoursRange", "hours_range"),
                             KA("hoursRangeException", "hours_range_exception"),
                             KA("weekDays", "week_days"),
                             KA("weekDaysException", "week_days_exception")>>,
                  validator |-> "jsd_e405a20316825460a1f37a2f161e7ac5_v3_1_0"],
     model |-> "bpm_e405a20316825460a1f37a2f161e7ac5_v3_1_0"]

\* variant: the id is not copied into the body
update_byod_portal_by_id_without_id ==
    [verb |-> "put",
     e_url |-> <<"/ers/config/byodportal/", "{id}">>,
     path |-> <<KA("id", "id")>>,
     query |-> <<>>,
     checks |-> ErsHeaderChecks,
     payload |-> [has_body |-> TRUE, wrapper |-> "BYODPortal",
                  body |-> <<KA("name", "name"),
                             KA("description", "description"),
                             KA("portalType", "portal_type"),
                             KA("portalTestUrl", "portal_test_url"),
                             KA("settings", "settings"),
                             KA("customizations", "customizations")>>,
                  validator |-> "jsd_e38d10b1ea257d49ebce893e87b3419_v3_1_0"],
     model |-> "bpm_e38d10b1ea257d49ebce893e87b3419_v3_1_0"]

update_byod_portal_by_id_def ==
    [verb |-> "put",
     e_url |-> <<"/ers/config/byodportal/", "{id}">>,
     path |-> <<KA("id", "id")>>,
     query |-> <<>>,
     checks |-> ErsHeaderChecks,
     payload |-> [has_body |-> TRUE, wrapper |-> "BYODPortal",
                  body |-> <<KA("id", "id"), KA("name", "name"),
                             KA("description", "description"),
                             KA("portalType", "portal_type"),
                             KA("portalTestUrl", "portal_test_url"),
                             KA("settings", "settings"),
                             KA("customizations", "customizations")>>,
                  validator |-> "jsd_e38d10b1ea257d49ebce893e87b3419_v3_1_0"],
     model |-> "bpm_e38d10b1ea257d49ebce893e87b3419_v3_1_0"]

load_groups_from_domain_def ==
    [verb |-> "put",
     e_url |-> <<"/ers/config/activedirectory/", "{id}", "/addGroups">>,
     path |-> <<KA("id", "id")>>,
     query |-> <<>>,
     checks |-> ErsHeaderChecks,
     payload |-> [has_body |-> TRUE, wrapper |-> "ERSActiveDirectory",
                  body |-> <<KA("id", "id"), KA("name", "name"),
                             KA("description", "description"),
                             KA("domain", "domain"),
                             KA("enableDomainWhiteList", "enable_domain_white_list"),
                             KA("adgroups", "adgroups"),
                             KA("advancedSettings", "advanced_settings"),
                             KA("adAttributes", "ad_attributes"),
                             KA("adScopesNames", "ad_scopes_names")>>,
                  validator |-> "jsd_b05e80058df96e685baa727d578_v3_1_0"],
     model |-> "bpm_b05e80058df96e685baa727d578_v3_1_0"]

update_network_access_condition_by_name_def ==
    [verb |-> "put",
     e_url |-> <<"/api/v1/policy/network-access/condition/condition-by-name/", "{name}">>,
     path |-> <<KA("name", "name")>>,
     query |-> <<>>,
     checks |-> PolicyHeaderChecks,
     payload |-> [has_body |-> TRUE, wrapper |-> "",
                  body |-> <<KA("conditionType", "condition_type"),
                             KA("isNegate", "is_negate"), KA("link", "link"),
                             KA("description", "description"), KA("id", "id"),
                             KA("name", "name"),
                             KA("attributeName", "attribute_name"),
                             KA("attributeValue", "attribute_value"),
                             KA("dictionaryName", "dictionary_name"),
                             KA("dictionaryValue", "dictionary_value"),
                             KA("operator", "operator"), KA("children", "children"),
                             KA("datesRange", "dates_range"),
                             KA("datesRangeException", "dates_range_exception"),
                             KA("hoursRange", "hours_range"),
                             KA("hoursRangeException", "hours_range_exception"),
                             KA("weekDays", "week_days"),
                             KA("weekDaysException", "week_days_exception")>>,
                  validator |-> "jsd_bea2910401185295a9715d65cb1c07c9_v3_1_0"],
     model |-> "bpm_bea2910401185295a9715d65cb1c07c9_v3_1_0"]

reset_hit_counts_device_admin_policy_by_id_authorization_rules_def ==
    [verb |-> "post",
     e_url |-> <<"/v1/policy/device-admin/policy-set/", "{policyId}",
                 "/authorization/reset-hitcount">>,
     path |-> <<KA("policyId", "policy_id")>>,
     query |-> <<>>,
     checks |-> PolicyHeaderChecks,
     payload |-> NoBody,
     model |-> "bpm_edb17577d9503ba1155c2916dcf663_v3_0_0"]

get_network_access_condition_by_name_def ==
    [verb |-> "get",
     e_url |-> <<"/api/v1/policy/network-access/condition/condition-by-name/", "{name}">>,
     path |-> <<KA("name", "name")>>,
     query |-> <<>>,
     checks |-> PolicyHeaderChecks,
     payload |-> NoBody,
     model |-> "bpm_f3b949de4363575398dc1c9e681630bb_v3_1_0"]

delete_network_access_condition_by_name_def ==
    [verb |-> "delete",
     e_url |-> <<"/api/v1/policy/network-access/condition/condition-by-name/", "{name}">>,
     path |-> <<KA("name", "name")>>,
     query |-> <<>>,
     checks |-> PolicyHeaderChecks,
     payload |-> NoBody,
     model |-> "bpm_ea1c05d19955fd4801e6c996705f3fc_v3_1_0"]

get_network_access_conditions_for_policy_sets_def ==
    [verb |-> "get",
     e_url |-> <<"/api/v1/policy/network-access/condition/policyset">>,
     path |-> <<>>,
     query |-> <<>>,
     checks |-> PolicyHeaderChecks,
     payload |-> NoBody,
     model |-> "bpm_c0984cde5e925c209ab87472ab905476_v3_1_0"]

update_device_admin_policy_by_id_authorization_rule_by_id_def ==
    [verb |-> "put",
     e_url |-> <<"/v1/policy/device-admin/policy-set/", "{policyId}",
                 "/authorization/", "{ruleId}">>,
     path |-> <<KA("policyId", "policy_id"), KA("ruleId", "rule_id")>>,
     query |-> <<>>,
     checks |-> PolicyHeaderChecks,
     payload |-> [has_body |-> TRUE, wrapper |-> "",
                  body |-> <<KA("commands", "commands"), KA("link", "link"),
                             KA("profile", "profile"), KA("rule", "rule")>>,
                  validator |-> "jsd_b60ed1eed75d7d9091344f4e38e2f1_v3_0_0"],
     model |-> "bpm_b60ed1eed75d7d9091344f4e38e2f1_v3_0_0"]

create_active_directory_def ==
    [verb |-> "post",
     e_url |-> <<"/ers/config/activedirectory">>,
     path |-> <<>>,
     query |-> <<>>,
     checks |-> ErsHeaderChecks,
     payload |-> [has_body |-> TRUE, wrapper |-> "ERSActiveDirectory",
                  body |-> <<KA("id", "id"), KA("name", "name"),
                             KA("description", "description"),
                             KA("domain", "domain"),
                             KA("enableDomainWhiteList", "enable_domain_white_list"),
                             KA("adgroups", "adgroups"),
                             KA("advancedSettings", "advanced_settings"),
                             KA("adAttributes", "ad_attributes"),
                             KA("adScopesNames", "ad_scopes_names")>>,
                  validator |-> "jsd_e9318040a456978757d7abfa3e66b1_v3_1_0"],
     model |-> "bpm_e9318040a456978757d7abfa3e66b1_v3_1_0"]

Methods ==
    {"get_device_admin_policy_by_id_authorization_rule_list",
     "create_device_admin_policy_by_id_authorization_rule",
     "delete_device_admin_policy_by_id_authorization_rule_by_id",
     "get_byod_portal_by_id", "get_byod_portal", "create_byod_portal",
     "get_user_groups", "get_active_directory",
     "get_network_access_conditions", "update_network_access_condition_by_id",
     "update_byod_portal_by_id", "load_groups_from_domain",
     "update_network_access_condition_by_name",
     "reset_hit_counts_device_admin_policy_by_id_authorization_rules",
     "get_network_access_condition_by_name",
     "delete_network_access_condition_by_name",
     "get_network_access_conditions_for_policy_sets",
     "update_device_admin_policy_by_id_authorization_rule_by_id",
     "create_active_directory"}

Method(m) ==
    CASE m = "get_device_admin_policy_by_id_authorization_rule_list" ->
            get_device_admin_policy_by_id_authorization_rule_list_def
      [] m = "create_device_admin_policy_by_id_authorization_rule" ->
            create_device_admin_policy_by_id_authorization_rule_def
      [] m = "delete_device_admin_policy_by_id_authorization_rule_by_id" ->
            delete_device_admin_policy_by_id_authorization_rule_by_id_def
      [] m = "get_byod_portal_by_id" -> get_byod_portal_by_id_def
      [] m = "get_byod_portal" -> get_byod_portal_def
      [] m = "create_byod_portal" -> create_byod_portal_def
      [] m = "get_user_groups" -> get_user_groups_def
      [] m = "get_active_directory" -> get_active_directory_def
      [] m = "get_network_access_conditions" -> get_network_access_conditions_def
      [] m = "update_network_access_condition_by_id" ->
            update_network_access_condition_by_id_def
      [] m = "update_byod_portal_by_id" -> update_byod_portal_by_id_def
      [] m = "load_groups_from_domain" -> load_groups_from_domain_def
      [] m = "update_network_access_condition_by_name" ->
            update_network_access_condition_by_name_def
      [] m = "reset_hit_counts_device_admin_policy_by_id_authorization_rules" ->
            reset_hit_counts_device_admin_policy_by_id_authorization_rules_def
      [] m = "get_network_access_condition_by_name" ->
            get_network_access_condition_by_name_def
      [] m = "delete_network_access_condition_by_name" ->
            delete_network_access_condition_by_name_def
      [] m = "get_network_access_conditions_for_policy_sets" ->
            get_network_access_conditions_for_policy_sets_def
      [] m = "update_device_admin_policy_by_id_authorization_rule_by_id" ->
            update_device_admin_policy_by_id_authorization_rule_by_id_def
      [] m = "create_active_directory" -> create_active_directory_def

\* the Python argument names of a method: path, query and body arguments
ArgNames(m) ==
    {Method(m).path[i].arg : i \in DOMAIN Method(m).path}
    \cup {Method(m).query[i].arg : i \in DOMAIN Method(m).query}
    \cup {Method(m).payload.body[i].arg : i \in DOMAIN Method(m).payload.body}

-----------------------------------------------------------------------------
(* The session's answers and the object factory *)

\* a raw response of the session: its content, and for a list response the page
\* it is and the page its SearchResult.nextPage.href names (0: no nextPage)
Response(content, page, next) ==
    [content |-> content, page |-> page, next |-> next]

NoResponse == Response("", 0, 0)

\* what the session call does: returns a response or raises ApiError
Returns(r) == [raises |-> FALSE, response |-> r]
ApiError == [raises |-> TRUE, response |-> NoResponse]

\* the injected object factory, applied to a model identifier and a raw response
object_factory(model, response) == [model |-> model, response |-> response]

NoResult == object_factory("", NoResponse)

-----------------------------------------------------------------------------
(* The stages of a generated method, in source order.  A stage passes the   *)
(* frame on unchanged once an exception has been raised.                    *)

\* the frame of an invocation of m before its first statement
Frame(m) ==
    [method |-> m,
     trace |-> <<>>,              \* calls made on validator, session, factory
     exc |-> "none",              \* the exception the invocation raised
     with_custom_headers |-> FALSE,
     headers |-> EmptyFn,         \* _headers
     is_xml_payload |-> FALSE,
     params |-> EmptyFn,          \* _params
     payload |-> None,            \* _payload
     validated |-> <<>>,          \* bodies handed to validate()
     http |-> <<>>,               \* requests handed to the session
     made |-> <<>>,               \* (model, response) pairs handed to the factory
     result |-> NoResult]         \* the value returned

Raise(st, e) == [st EXCEPT !.exc = e]

\* check_type(headers, dict), the per-header checks, and the merge of the
\* call's headers over the session's
CheckHeaders(st, m, a) ==
    IF st.exc # "none" THEN st
    ELSE IF ~check_type(a.headers, {"dict"}, TRUE) THEN Raise(st, "TypeError")
    ELSE IF /\ a.headers.t = "dict"
            /\ \E c \in Method(m).checks :
                  /\ c.name \in DOMAIN a.headers.d
                  /\ ~check_type(a.headers.d[c.name], {"str"}, c.may_be_none)
         THEN Raise(st, "TypeError")
    ELSE IF api._session.t # "RestSession" THEN Raise(st, "AttributeError")
    ELSE IF Truthy(a.headers)
         THEN [st EXCEPT !.headers = Update(session_headers, dict_of_str(a.headers.d)),
                         !.with_custom_headers = TRUE]
         ELSE [st EXCEPT !.headers = session_headers]

\* 'application/xml' in value
ContainsXml(value) ==
    value \in {"application/xml", "application/xml;charset=utf-8"}

\* variant: the type check of payload runs whatever active_validation is
CheckPayloadTypeAlways(st, m, a) ==
    IF st.exc # "none" \/ ~Method(m).payload.has_body THEN st
    ELSE LET is_xml_payload ==
                 /\ "Content-Type" \in DOMAIN st.headers
                 /\ ContainsXml(st.headers["Content-Type"].s)
         IN  IF is_xml_payload /\ ~check_type(a.payload, {"str"}, TRUE)
             THEN Raise(st, "TypeError")
             ELSE IF ~is_xml_payload /\ ~check_type(a.payload, {"dict"}, TRUE)
             THEN Raise(st, "TypeError")
             ELSE [st EXCEPT !.is_xml_payload = is_xml_payload]

\* variant: is_xml_payload looks at the call's own headers argument only
CheckPayloadTypeOwnHeaders(st, m, a) ==
    IF st.exc # "none" \/ ~Method(m).payload.has_body THEN st
    ELSE LET is_xml_payload ==
                 /\ a.headers.t = "dict"
                 /\ "Content-Type" \in DOMAIN a.headers.d
                 /\ ContainsXml(a.headers.d["Content-Type"].s)
         IN  IF a.active_validation /\ is_xml_payload
                  /\ ~check_type(a.payload, {"str"}, TRUE)
             THEN Raise(st, "TypeError")
             ELSE IF a.active_validation /\ ~is_xml_payload
                  /\ ~check_type(a.payload, {"dict"}, TRUE)
             THEN Raise(st, "TypeError")
             ELSE [st EXCEPT !.is_xml_payload = is_xml_payload]

\* is_xml_payload, and the type check of payload that active_validation enables
CheckPayloadType(st, m, a) ==
    IF st.exc # "none" \/ ~Method(m).payload.has_body THEN st
    ELSE LET is_xml_payload ==
                 /\ "Content-Type" \in DOMAIN st.headers
                 /\ ContainsXml(st.headers["Content-Type"].s)
         IN  IF a.active_validation /\ is_xml_payload
                  /\ ~check_type(a.payload, {"str"}, TRUE)
             THEN Raise(st, "TypeError")
             ELSE IF a.active_validation /\ ~is_xml_payload
                  /\ ~check_type(a.payload, {"dict"}, TRUE)
             THEN Raise(st, "TypeError")
             ELSE [st EXCEPT !.is_xml_payload = is_xml_payload]

\* variant: a path argument is checked like an optional one
CheckArgsOptionalPath(st, m, a) ==
    IF st.exc # "none" THEN st
    ELSE IF \E i \in DOMAIN Method(m).path :
                ~check_type(a.args[Method(m).path[i].arg], {"str"}, TRUE)
         THEN Raise(st, "TypeError")
    ELSE IF \E i \in DOMAIN Method(m).query :
                ~check_type(a.args[Method(m).query[i].arg],
                            Method(m).query[i].types, TRUE)
         THEN Raise(st, "TypeError")
    ELSE st

\* check_type of every path argument (may_be_none=False) and query argument
CheckArgs(st, m, a) ==
    IF st.exc # "none" THEN st
    ELSE IF \E i \in DOMAIN Method(m).path :
                ~check_type(a.args[Method(m).path[i].arg], {"str"}, FALSE)
         THEN Raise(st, "TypeError")
    ELSE IF \E i \in DOMAIN Method(m).query :
                ~check_type(a.args[Method(m).query[i].arg],
                            Method(m).query[i].types, TRUE)
         THEN Raise(st, "TypeError")
    ELSE st

\* the dict literal a sequence of (key, argument) entries writes
Named(entries, a) ==
    [k \in {entries[i].key : i \in DOMAIN entries} |->
        a.args[entries[CHOOSE i \in DOMAIN entries : entries[i].key = k].arg]]

\* variant: _params holds **query_parameters alone, the named ones are dropped
BuildParamsWithoutNamed(st, m, a) ==
    IF st.exc # "none" THEN st
    ELSE [st EXCEPT !.params = dict_from_items_with_values(a.query_parameters)]

\* variant: _params is sent as built, None values included
BuildParamsUnfiltered(st, m, a) ==
    IF st.exc # "none" THEN st
    ELSE [st EXCEPT !.params =
            Update(Named(Method(m).query, a), a.query_parameters)]

\* _params: the named query arguments, overlaid by **query_parameters, filtered
BuildParams(st, m, a) ==
    IF st.exc # "none" THEN st
    ELSE [st EXCEPT !.params =
            dict_from_items_with_values(
                Update(Named(Method(m).query, a), a.query_parameters))]

\* variant: the last entry of path_params is left out
PathParamsWithoutLast(m, a) ==
    Named(SubSeq(Method(m).path, 1, Len(Method(m).path) - 1), a)

\* path_params
PathParams(m, a) == Named(Method(m).path, a)

\* variant: the body is payload alone, the named body arguments are dropped
BuildPayloadFromPayload(st, m, a) ==
    IF st.exc # "none" \/ ~Method(m).payload.has_body THEN st
    ELSE IF st.is_xml_payload THEN [st EXCEPT !.payload = a.payload]
    ELSE IF Truthy(a.payload) /\ a.payload.t # "dict"
         THEN Raise(st, "ValueError")
         ELSE [st EXCEPT !.payload =
                 Dict(dict_from_items_with_values(
                     IF Truthy(a.payload) THEN a.payload.d ELSE EmptyFn))]

\* variant: the named body arguments are laid over payload
BuildPayloadNamedOverPayload(st, m, a) ==
    IF st.exc # "none" \/ ~Method(m).payload.has_body THEN st
    ELSE IF st.is_xml_payload THEN [st EXCEPT !.payload = a.payload]
    ELSE LET named == Named(Method(m).payload.body, a)
             wrapper == Method(m).payload.wrapper
             literal == IF wrapper = "" THEN named
                        ELSE [k \in {wrapper} |->
                                 Dict(dict_from_items_with_values(named))]
         IN  IF Truthy(a.payload) /\ a.payload.t # "dict"
             THEN Raise(st, "ValueError")
             ELSE [st EXCEPT !.payload =
                     Dict(dict_from_items_with_values(
                         Update(IF Truthy(a.payload) THEN a.payload.d ELSE EmptyFn,
                                literal)))]

\* variant: payload's wrapper object is merged into the one the named
\* arguments give
BuildPayloadMergedInWrapper(st, m, a) ==
    IF st.exc # "none" \/ ~Method(m).payload.has_body THEN st
    ELSE IF st.is_xml_payload THEN [st EXCEPT !.payload = a.payload]
    ELSE LET named == Named(Method(m).payload.body, a)
             wrapper == Method(m).payload.wrapper
             given == IF Truthy(a.payload) /\ a.payload.t = "dict"
                      THEN a.payload.d ELSE EmptyFn
             inner == IF wrapper \in DOMAIN given /\ given[wrapper].t = "dict"
                      THEN given[wrapper].d ELSE EmptyFn
             literal == IF wrapper = "" THEN named
                        ELSE [k \in {wrapper} |->
                                 Dict(dict_from_items_with_values(
                                     Update(named, inner)))]
         IN  IF Truthy(a.payload) /\ a.payload.t # "dict"
             THEN Raise(st, "ValueError")
             ELSE [st EXCEPT !.payload =
                     Dict(dict_from_items_with_values(
                         Update(given, literal)))]

\* _payload: payload itself on the XML path; otherwise the named body
\* arguments (nested under the wrapper key in the ERS wrappers), overlaid by
\* payload at the top level, filtered.  dict.update raises ValueError on a
\* non-empty str.
BuildPayload(st, m, a) ==
    IF st.exc # "none" \/ ~Method(m).payload.has_body THEN st
    ELSE IF st.is_xml_payload THEN [st EXCEPT !.payload = a.payload]
    ELSE LET named == Named(Method(m).payload.body, a)
             wrapper == Method(m).payload.wrapper
             literal == IF wrapper = "" THEN named
                        ELSE [k \in {wrapper} |->
                                 Dict(dict_from_items_with_values(named))]
         IN  IF Truthy(a.payload) /\ a.payload.t # "dict"
             THEN Raise(st, "ValueError")
             ELSE [st EXCEPT !.payload =
                     Dict(dict_from_items_with_values(
                         Update(literal,
                                IF Truthy(a.payload) THEN a.payload.d ELSE EmptyFn)))]

\* variant: validate() is called and what it raises is swallowed
ValidateIgnoringVerdict(st, m, a, verdict) ==
    IF st.exc # "none" \/ ~Method(m).payload.has_body THEN st
    ELSE IF a.active_validation /\ ~st.is_xml_payload
         THEN [st EXCEPT
                 !.trace = Append(@, "validate"),
                 !.validated = Append(@, [validator |-> Method(m).payload.validator,
                                          body |-> st.payload,
                                          verdict |-> verdict])]
         ELSE st

\* variant: validate() is called on the XML path as well
ValidateAlsoXml(st, m, a, verdict) ==
    IF st.exc # "none" \/ ~Method(m).payload.has_body THEN st
    ELSE IF a.active_validation
         THEN [st EXCEPT
                 !.trace = Append(@, "validate"),
                 !.validated = Append(@, [validator |-> Method(m).payload.validator,
                                          body |-> st.payload,
                                          verdict |-> verdict]),
                 !.exc = IF verdict = "MalformedRequest" THEN verdict ELSE @]
         ELSE st

\* self._request_validator(id).validate(_payload); verdict is what the injected
\* validator answers for this body
Validate(st, m, a, verdict) ==
    IF st.exc # "none" \/ ~Method(m).payload.has_body THEN st
    ELSE IF a.active_validation /\ ~st.is_xml_payload
         THEN [st EXCEPT
                 !.trace = Append(@, "validate"),
                 !.validated = Append(@, [validator |-> Method(m).payload.validator,
                                          body |-> st.payload,
                                          verdict |-> verdict]),
                 !.exc = IF verdict = "MalformedRequest" THEN verdict ELSE @]
         ELSE st

\* the request handed to the session: verb, URL, params, and the headers and
\* the json= or data= keyword when they are passed
Request(st, m, a) ==
    [verb |-> Method(m).verb,
     url |-> apply_path_params(Method(m).e_url, PathParams(m, a)),
     params |-> st.params,
     headers |-> IF st.with_custom_headers THEN Dict(st.headers) ELSE None,
     kind |-> IF ~Method(m).payload.has_body THEN "none"
              ELSE IF st.is_xml_payload THEN "data" ELSE "json",
     body |-> st.payload]

\* variant: the session is called twice with the same request
SendTwice(st, m, a, answer) ==
    IF st.exc # "none" THEN st
    ELSE LET call == [request |-> Request(st, m, a), raises |-> answer.raises,
                      response |-> answer.response]
         IN  [st EXCEPT
                !.trace = @ \o <<"session", "session">>,
                !.http = @ \o <<call, call>>,
                !.exc = IF answer.raises THEN "ApiError" ELSE @]

\* variant: a call that raised is issued once more, and that one returns
SendWithRetry(st, m, a, answer) ==
    IF st.exc # "none" THEN st
    ELSE LET call == [request |-> Request(st, m, a), raises |-> answer.raises,
                      response |-> answer.response]
             again == [request |-> Request(st, m, a), raises |-> FALSE,
                       response |-> NoResponse]
         IN  [st EXCEPT
                !.trace = IF answer.raises THEN @ \o <<"session", "session">>
                          ELSE Append(@, "session"),
                !.http = IF answer.raises THEN @ \o <<call, again>>
                         ELSE Append(@, call)]

\* the one session call; answer is what the session does with the request
Send(st, m, a, answer) ==
    IF st.exc # "none" THEN st
    ELSE [st EXCEPT
            !.trace = Append(@, "session"),
            !.http = Append(@, [request |-> Request(st, m, a),
                                raises |-> answer.raises,
                                response |-> answer.response]),
            !.exc = IF answer.raises THEN "ApiError" ELSE @]

\* variant: the factory is handed the model identifier of another method
WrapWithListModel(st, m) ==
    IF st.exc # "none" THEN st
    ELSE LET _api_response == st.http[Len(st.http)].response
         IN  [st EXCEPT
                !.trace = Append(@, "factory"),
                !.made = Append(@, [model |-> get_byod_portal_def.model,
                                    response |-> _api_response]),
                !.result = object_factory(get_byod_portal_def.model, _api_response)]

\* return self._object_factory(model, _api_response)
Wrap(st, m) ==
    IF st.exc # "none" THEN st
    ELSE LET _api_response == st.http[Len(st.http)].response
         IN  [st EXCEPT
                !.trace = Append(@, "factory"),
                !.made = Append(@, [model |-> Method(m).model,
                                    response |-> _api_response]),
                !.result = object_factory(Method(m).model, _api_response)]

\* a whole method body
MethodBody(m, a, verdict, answer) ==
    LET merged == {CheckHeaders(Frame(m), m, a)}
        typed == {CheckPayloadType(st, m, a) : st \in merged}
        checked == {CheckArgs(st, m, a) : st \in typed}
        with_params == {BuildParams(st, m, a) : st \in checked}
        with_payload == {BuildPayload(st, m, a) : st \in with_params}
        validated == {Validate(st, m, a, verdict) : st \in with_payload}
        sent == {Send(st, m, a, answer) : st \in validated}
    IN  CHOOSE done \in {Wrap(st, m) : st \in sent} : TRUE

-----------------------------------------------------------------------------
(* Arguments the methods are called with, and what the environment answers *)

\* the arguments of a call to m: those given, the others at their default None
Args(m, given) ==
    [n \in ArgNames(m) |-> IF n \in DOMAIN given THEN given[n] ELSE None]

Call(headers, payload, active_validation, args, query_parameters) ==
    [headers |-> headers, payload |-> payload,
     active_validation |-> active_validation,
     args |-> args, query_parameters |-> query_parameters]

XmlHeaders == D1("Content-Type", Str("application/xml"))
JsonHeaders == D1("Content-Type", Str("application/json"))

\* headers arguments: absent, empty, of the wrong type, with a wrongly typed value
PolicyHeaderArgs ==
    {None, EmptyDict, XmlHeaders, Str("h"), D1("X-Request-ID", PyInt("7"))}
ErsHeaderArgs == {None, JsonHeaders, XmlHeaders, D1("Accept", None)}
BodyHeaderArgs == {None, JsonHeaders, XmlHeaders}

\* a path argument: a string, or wrongly None
PathArgs == {Str("p1"), None}

\* **query_parameters
QueryParameters == {EmptyFn, [k \in {"extra"} |-> None]}

\* **query_parameters that name the API key of a named query argument
KeywordOverrides ==
    {EmptyFn, [k \in {"filterType"} |-> Str("OR")], [k \in {"filterType"} |-> None]}

\* what the injected validator answers, and what the session does
Verdicts == {"valid", "MalformedRequest"}
Answers == {Returns(Response("r1", 0, 0)), Returns(Response("r2", 0, 0)), ApiError}
BodyAnswers == {Returns(Response("r3", 0, 0)), ApiError}

\* the session's default headers
SessionHeaders ==
    {[k \in {"Content-Type"} |-> Str("application/json")],
     [k \in {"Content-Type"} |-> Str("application/xml;charset=utf-8")]}

-----------------------------------------------------------------------------
(* State *)

NoCall == [method |-> "", args |-> Call(None, None, TRUE, EmptyFn, EmptyFn),
           via |-> "", run |-> Frame(""), direct |-> Frame("")]

NoGenerator ==
    [status |-> "none", function |-> "", params |-> NoCall.args,
     access_next_list |-> <<>>, requested |-> 0,
     issued |-> <<>>, yielded |-> <<>>]

\* what a validate() call remembers of the one before it: whether that one
\* was made on the same validator with the same request, and how it ended
NoVerdict == [repeat |-> FALSE, outcome |-> ""]

NoCheck == [validator |-> "", request |-> None, outcome |-> "", after |-> None,
            before |-> NoVerdict]

\* the validator classes
Validators ==
    {"JSONSchemaValidatorE9Cc593C395C48B31B30149467C846",
     "JSONSchemaValidatorFa838E78175E51B4Bcfb0821C19B81B7"}

\* an instance of a validator class: _validator is the check
\* fastjsonschema.compile returned for the class's schema, compiled the
\* number of compile calls made for the instance
Compile(validator) == [_validator |-> validator, compiled |-> 1]

\* no wrapper constructed yet, and a wrapper of the api object, which hands
\* its RestSession to each of them
NoWrapper ==
    [class |-> "", session |-> None, object_factory |-> "",
     request_validator |-> "", exc |-> "none",
     _session |-> None, _object_factory |-> "", _request_validator |-> ""]

ApiWrapper ==
    [class |-> "api", session |-> RestSession,
     object_factory |-> "object_factory",
     request_validator |-> "request_validator", exc |-> "none",
     _session |-> RestSession, _object_factory |-> "object_factory",
     _request_validator |-> "request_validator"]

Init ==
    /\ api = ApiWrapper
    /\ session_headers \in SessionHeaders
    /\ calls = 0
    /\ last = NoCall
    /\ gen = NoGenerator
    /\ server = [p \in 1..MaxPages |-> 0]
    /\ vcheck = NoCheck
    /\ jsd = [v \in Validators |-> Compile(v)]

\* variant: _headers is the session's own dict, so _headers.update() writes
\* the call's headers into the session's defaults
InvokeOnSharedHeaders(m, a, verdict, answer) ==
    /\ calls' = calls + 1
    /\ \E run \in {MethodBody(m, a, verdict, answer)} :
          /\ last' = [method |-> m, args |-> a, via |-> "caller",
                      run |-> run, direct |-> run]
          /\ session_headers' = IF run.with_custom_headers THEN run.headers
                                ELSE session_headers
    /\ UNCHANGED <<api, gen, server, vcheck, jsd>>

\* variant: the wrapper keeps the result of its last call and serves a call
\* with the same method and arguments from it
InvokeCached(m, a, verdict, answer) ==
    /\ calls' = calls + 1
    /\ \E run \in {MethodBody(m, a, verdict, answer)} :
          last' = [method |-> m, args |-> a, via |-> "caller",
                   run |-> IF /\ last.method = m /\ last.args = a
                              /\ last.run.exc = "none"
                           THEN [last.run EXCEPT !.trace = <<>>, !.http = <<>>,
                                                 !.made = <<>>]
                           ELSE run,
                   direct |-> run]
    /\ UNCHANGED <<api, session_headers, gen, server, vcheck, jsd>>

\* one invocation of m by the caller.  self._session.headers hands the method
\* a copy of the session's default headers: what the method merges into
\* _headers stays in the invocation.
Invoke(m, a, verdict, answer) ==
    /\ calls' = calls + 1
    /\ \E run \in {MethodBody(m, a, verdict, answer)} :
          last' = [method |-> m, args |-> a, via |-> "caller",
                   run |-> run, direct |-> run]
    /\ UNCHANGED <<api, session_headers, gen, server, vcheck, jsd>>

-----------------------------------------------------------------------------
(* The wrapper methods *)

get_device_admin_policy_by_id_authorization_rule_list ==
    /\ calls < MaxCalls
    /\ \E headers \in PolicyHeaderArgs, policy_id \in PathArgs,
          query_parameters \in QueryParameters, answer \in Answers :
           LET m == "get_device_admin_policy_by_id_authorization_rule_list"
           IN  Invoke(m, Call(headers, None, TRUE,
                              Args(m, [policy_id |-> policy_id]), query_parameters),
                      "valid", answer)

create_device_admin_policy_by_id_authorization_rule ==
    /\ calls < MaxCalls
    /\ \E headers \in {None, XmlHeaders, Str("h")}, active_validation \in BOOLEAN,
          payload \in {None, D1("rule", Str("r2")), Str("<rule/>")},
          policy_id \in {Str("p1")}, rule \in {None, Str("r1")},
          verdict \in Verdicts, answer \in BodyAnswers :
           LET m == "create_device_admin_policy_by_id_authorization_rule"
           IN  Invoke(m, Call(headers, payload, active_validation,
                              Args(m, [policy_id |-> policy_id, rule |-> rule,
                                       profile |-> Str("admin")]), EmptyFn),
                      verdict, answer)

delete_device_admin_policy_by_id_authorization_rule_by_id ==
    /\ calls < MaxCalls
    /\ \E headers \in {None, EmptyDict}, policy_id \in PathArgs,
          rule_id \in {Str("p2"), None}, answer \in Answers :
           LET m == "delete_device_admin_policy_by_id_authorization_rule_by_id"
           IN  Invoke(m, Call(headers, None, TRUE,
                              Args(m, [policy_id |-> policy_id, rule_id |-> rule_id]),
                              EmptyFn),
                      "valid", answer)

get_byod_portal_by_id ==
    /\ calls < MaxCalls
    /\ \E headers \in ErsHeaderArgs, id \in PathArgs \cup {PyInt("7")},
          answer \in Answers :
           LET m == "get_byod_portal_by_id"
           IN  Invoke(m, Call(headers, None, TRUE, Args(m, [id |-> id]), EmptyFn),
                      "valid", answer)

get_byod_portal ==
    /\ calls < MaxCalls
    /\ \E headers \in {None, JsonHeaders}, page \in {None, PyInt("2"), D1("p", None)},
          filter \in {None, Str("name.EQ.x")}, filter_type \in {None, Str("AND")},
          query_parameters \in KeywordOverrides, answer \in BodyAnswers :
           LET m == "get_byod_portal"
           IN  Invoke(m, Call(headers, None, TRUE,
                              Args(m, [page |-> page, filter |-> filter,
                                       filter_type |-> filter_type]),
                              query_parameters),
                      "valid", answer)

create_byod_portal ==
    /\ calls < MaxCalls
    /\ \E headers \in BodyHeaderArgs, active_validation \in BOOLEAN,
          payload \in {None, D1("BYODPortal", D1("name", Str("n2"))), Str("<portal/>")},
          name \in {None, Str("n1")}, verdict \in Verdicts, answer \in BodyAnswers :
           LET m == "create_byod_portal"
           IN  Invoke(m, Call(headers, payload, active_validation,
                              Args(m, [name |-> name, description |-> Str("d1")]),
                              EmptyFn),
                      verdict, answer)

get_user_groups ==
    /\ calls < MaxCalls
    /\ \E headers \in BodyHeaderArgs, active_validation \in BOOLEAN,
          payload \in {None, Str("<data/>"),
                       D1("OperationAdditionalData",
                          D1("additionalData", Str("other")))},
          id \in {Str("p1")},
          additional_data \in {None, Str("user")},
          verdict \in Verdicts, answer \in BodyAnswers :
           LET m == "get_user_groups"
           IN  Invoke(m, Call(headers, payload, active_validation,
                              Args(m, [id |-> id, additional_data |-> additional_data]),
                              EmptyFn),
                      verdict, answer)

get_active_directory ==
    /\ calls < MaxCalls
    /\ \E headers \in {None, JsonHeaders}, page \in {None, PyInt("2")},
          size \in {None, PyInt("20")}, answer \in Answers :
           LET m == "get_active_directory"
           IN  Invoke(m, Call(headers, None, TRUE,
                              Args(m, [page |-> page, size |-> size]), EmptyFn),
                      "valid", answer)

get_network_access_conditions ==
    /\ calls < MaxCalls
    /\ \E headers \in PolicyHeaderArgs, query_parameters \in QueryParameters,
          answer \in Answers :
           LET m == "get_network_access_conditions"
           IN  Invoke(m, Call(headers, None, TRUE, Args(m, EmptyFn), query_parameters),
                      "valid", answer)

update_network_access_condition_by_id ==
    /\ calls < MaxCalls
    /\ \E headers \in {None, XmlHeaders}, active_validation \in BOOLEAN,
          payload \in {None, D1("id", Str("p2")), D1("description", Str("d2")),
                       D1("name", None)},
          id \in PathArgs, name \in {Str("n1")},
          verdict \in Verdicts, answer \in BodyAnswers :
           LET m == "update_network_access_condition_by_id"
           IN  Invoke(m, Call(headers, payload, active_validation,
                              Args(m, [id |-> id, name |-> name]), EmptyFn),
                      verdict, answer)

update_byod_portal_by_id ==
    /\ calls < MaxCalls
    /\ \E headers \in {None, XmlHeaders}, active_validation \in BOOLEAN,
          payload \in {None, D1("BYODPortal", D1("name", Str("n2"))),
                       D1("extra", Str("e"))},
          id \in PathArgs, verdict \in Verdicts, answer \in BodyAnswers :
           LET m == "update_byod_portal_by_id"
           IN  Invoke(m, Call(headers, payload, active_validation,
                              Args(m, [id |-> id, name |-> Str("n1")]), EmptyFn),
                      verdict, answer)

load_groups_from_domain ==
    /\ calls < MaxCalls
    /\ \E active_validation \in BOOLEAN,
          payload \in {None, EmptyDict,
                       D1("ERSActiveDirectory", D1("domain", Str("d2")))},
          id \in {Str("p1")}, verdict \in Verdicts, answer \in BodyAnswers :
           LET m == "load_groups_from_domain"
           IN  Invoke(m, Call(None, payload, active_validation,
                              Args(m, [id |-> id, domain |-> Str("d1")]), EmptyFn),
                      verdict, answer)

update_network_access_condition_by_name ==
    /\ calls < MaxCalls
    /\ \E active_validation \in BOOLEAN,
          payload \in {None, D1("name", Str("n2")), D1("id", Str("p2"))},
          name \in {Str("n1"), None}, id \in {None, Str("p1")},
          verdict \in Verdicts, answer \in BodyAnswers :
           LET m == "update_network_access_condition_by_name"
           IN  Invoke(m, Call(None, payload, active_validation,
                              Args(m, [name |-> name, id |-> id]), EmptyFn),
                      verdict, answer)

reset_hit_counts_device_admin_policy_by_id_authorization_rules ==
    /\ calls < MaxCalls
    /\ \E headers \in {None, EmptyDict}, policy_id \in PathArgs, answer \in Answers :
           LET m == "reset_hit_counts_device_admin_policy_by_id_authorization_rules"
           IN  Invoke(m, Call(headers, None, TRUE,
                              Args(m, [policy_id |-> policy_id]), EmptyFn),
                      "valid", answer)

get_network_access_condition_by_name ==
    /\ calls < MaxCalls
    /\ \E headers \in {None, D1("X-Request-ID", Str("x"))}, name \in PathArgs,
          answer \in Answers :
           LET m == "get_network_access_condition_by_name"
           IN  Invoke(m, Call(headers, None, TRUE, Args(m, [name |-> name]), EmptyFn),
                      "valid", answer)

delete_network_access_condition_by_name ==
    /\ calls < MaxCalls
    /\ \E headers \in {None, D1("X-Request-ID", Str("x"))}, name \in PathArgs,
          answer \in Answers :
           LET m == "delete_network_access_condition_by_name"
           IN  Invoke(m, Call(headers, None, TRUE, Args(m, [name |-> name]), EmptyFn),
                      "valid", answer)

get_network_access_conditions_for_policy_sets ==
    /\ calls < MaxCalls
    /\ \E headers \in {None, EmptyDict}, query_parameters \in QueryParameters,
          answer \in Answers :
           LET m == "get_network_access_conditions_for_policy_sets"
           IN  Invoke(m, Call(headers, None, TRUE, Args(m, EmptyFn), query_parameters),
                      "valid", answer)

update_device_admin_policy_by_id_authorization_rule_by_id ==
    /\ calls < MaxCalls
    /\ \E headers \in {None, XmlHeaders}, active_validation \in BOOLEAN,
          payload \in {None, Str("<rule/>"), D1("rule", Str("r2"))},
          rule_id \in PathArgs, verdict \in Verdicts :
           LET m == "update_device_admin_policy_by_id_authorization_rule_by_id"
           IN  Invoke(m, Call(headers, payload, active_validation,
                              Args(m, [policy_id |-> Str("p1"), rule_id |-> rule_id,
                                       rule |-> Str("r1")]),
                              EmptyFn),
                      verdict, Returns(Response("r3", 0, 0)))

create_active_directory ==
    /\ calls < MaxCalls
    /\ \E headers \in {JsonHeaders, XmlHeaders}, active_validation \in BOOLEAN,
          payload \in {None, Str("<ad/>"),
                       D1("ERSActiveDirectory", D1("name", Str("n2")))},
          verdict \in Verdicts, answer \in BodyAnswers :
           LET m == "create_active_directory"
           IN  Invoke(m, Call(headers, payload, active_validation,
                              Args(m, [name |-> Str("n1")]), EmptyFn),
                      verdict, answer)

-----------------------------------------------------------------------------
(* The alias methods: each returns what the method it names returns for the *)
(* keyword arguments it passes on.                                          *)

DeviceAdministrationAuthorizationRules_get_all_def ==
    [name |-> "DeviceAdministrationAuthorizationRules.get_all",
     target |-> "get_device_admin_policy_by_id_authorization_rule_list",
     keywords |-> {"policy_id", "headers"},
     star |-> TRUE]

DeviceAdministrationAuthorizationRules_create_def ==
    [name |-> "DeviceAdministrationAuthorizationRules.create",
     target |-> "create_device_admin_policy_by_id_authorization_rule",
     keywords |-> {"policy_id", "commands", "link", "profile", "rule",
                   "payload", "active_validation", "headers"},
     star |-> TRUE]

DeviceAdministrationAuthorizationRules_reset_hit_counts_by_id_def ==
    [name |-> "DeviceAdministrationAuthorizationRules.reset_hit_counts_by_id",
     target |-> "reset_hit_counts_device_admin_policy_by_id_authorization_rules",
     keywords |-> {"policy_id", "headers"},
     star |-> TRUE]

DeviceAdministrationAuthorizationRules_delete_by_id_def ==
    [name |-> "DeviceAdministrationAuthorizationRules.delete_by_id",
     target |-> "delete_device_admin_policy_by_id_authorization_rule_by_id",
     keywords |-> {"policy_id", "rule_id", "headers"},
     star |-> TRUE]

ByodPortal_get_by_id_def ==
    [name |-> "ByodPortal.get_by_id",
     target |-> "get_byod_portal_by_id",
     keywords |-> {"id", "headers"},
     star |-> TRUE]

ByodPortal_update_by_id_def ==
    [name |-> "ByodPortal.update_by_id",
     target |-> "update_byod_portal_by_id",
     keywords |-> {"id", "customizations", "description", "name",
                   "portal_test_url", "portal_type", "settings", "payload",
                   "active_validation", "headers"},
     star |-> TRUE]

ByodPortal_get_all_def ==
    [name |-> "ByodPortal.get_all",
     target |-> "get_byod_portal",
     keywords |-> {"filter", "filter_type", "page", "size", "sortasc",
                   "sortdsc", "headers"},
     star |-> TRUE]

ByodPortal_create_def ==
    [name |-> "ByodPortal.create",
     target |-> "create_byod_portal",
     keywords |-> {"customizations", "description", "id", "name",
                   "portal_test_url", "portal_type", "settings", "payload",
                   "active_validation", "headers"},
     star |-> TRUE]

ActiveDirectory_get_all_def ==
    [name |-> "ActiveDirectory.get_all",
     target |-> "get_active_directory",
     keywords |-> {"page", "size", "headers"},
     star |-> TRUE]

NetworkAccessConditions_get_all_def ==
    [name |-> "NetworkAccessConditions.get_all",
     target |-> "get_network_access_conditions",
     keywords |-> {"headers"},
     star |-> TRUE]

NetworkAccessConditions_get_by_name_def ==
    [name |-> "NetworkAccessConditions.get_by_name",
     target |-> "get_network_access_condition_by_name",
     keywords |-> {"name", "headers"},
     star |-> TRUE]

NetworkAccessConditions_update_by_name_def ==
    [name |-> "NetworkAccessConditions.update_by_name",
     target |-> "update_network_access_condition_by_name",
     keywords |-> {"name", "attribute_name", "attribute_value", "children",
                   "condition_type", "dates_range", "dates_range_exception",
                   "description", "dictionary_name", "dictionary_value",
                   "hours_range", "hours_range_exception", "id", "is_negate",
                   "link", "operator", "week_days", "week_days_exception",
                   "payload", "active_validation", "headers"},
     star |-> TRUE]

NetworkAccessConditions_delete_by_name_def ==
    [name |-> "NetworkAccessConditions.delete_by_name",
     target |-> "delete_network_access_condition_by_name",
     keywords |-> {"name", "headers"},
     star |-> TRUE]

NetworkAccessConditions_get_all_for_policy_sets_def ==
    [name |-> "NetworkAccessConditions.get_all_for_policy_sets",
     target |-> "get_network_access_conditions_for_policy_sets",
     keywords |-> {"headers"},
     star |-> TRUE]

NetworkAccessConditions_update_by_id_def ==
    [name |-> "NetworkAccessConditions.update_by_id",
     target |-> "update_network_access_condition_by_id",
     keywords |-> {"id", "attribute_name", "attribute_value", "children",
                   "condition_type", "dates_range", "dates_range_exception",
                   "description", "dictionary_name", "dictionary_value",
                   "hours_range", "hours_range_exception", "is_negate",
                   "link", "name", "operator", "week_days",
                   "week_days_exception", "payload", "active_validation",
                   "headers"},
     star |-> TRUE]

Aliases ==
    {DeviceAdministrationAuthorizationRules_get_all_def,
     DeviceAdministrationAuthorizationRules_create_def,
     DeviceAdministrationAuthorizationRules_reset_hit_counts_by_id_def,
     DeviceAdministrationAuthorizationRules_delete_by_id_def,
     ByodPortal_get_by_id_def,
     ByodPortal_update_by_id_def,
     ByodPortal_get_all_def,
     ByodPortal_create_def,
     ActiveDirectory_get_all_def,
     NetworkAccessConditions_get_all_def,
     NetworkAccessConditions_get_by_name_def,
     NetworkAccessConditions_update_by_name_def,
     NetworkAccessConditions_delete_by_name_def,
     NetworkAccessConditions_get_all_for_policy_sets_def,
     NetworkAccessConditions_update_by_id_def}

Alias(name) == CHOOSE al \in Aliases : al.name = name

\* variant: the alias passes no headers on
ForwardWithoutHeaders(al, a) ==
    LET pass(n, v, default) == IF n \in al.keywords THEN v ELSE default
    IN  Call(None,
             pass("payload", a.payload, None),
             pass("active_validation", a.active_validation, TRUE),
             [n \in DOMAIN a.args |-> pass(n, a.args[n], None)],
             IF al.star THEN a.query_parameters ELSE EmptyFn)

\* the arguments the target is called with: each keyword the alias passes
\* holds the alias's own argument of that name, the others keep the target's
\* default; **query_parameters is passed on when the call has it
Forward(al, a) ==
    LET pass(n, v, default) == IF n \in al.keywords THEN v ELSE default
    IN  Call(pass("headers", a.headers, None),
             pass("payload", a.payload, None),
             pass("active_validation", a.active_validation, TRUE),
             [n \in DOMAIN a.args |-> pass(n, a.args[n], None)],
             IF al.star THEN a.query_parameters ELSE EmptyFn)

\* arguments an alias is called with: every argument given a value of its own
\* (a str named after the argument), or the path arguments left None
AliasArgs(m) ==
    {[n \in ArgNames(m) |-> Str(n)],
     [n \in ArgNames(m) |->
         IF \E i \in DOMAIN Method(m).path : Method(m).path[i].arg = n
         THEN None ELSE Str(n)]}

AliasPayloads(m) ==
    IF Method(m).payload.has_body THEN {None, D1("extra", Str("e"))} ELSE {None}

AliasValidation(m) ==
    IF Method(m).payload.has_body THEN BOOLEAN ELSE {TRUE}

\* the validator's verdict and the session's answer during an alias call
AliasEnv(m) ==
    IF Method(m).payload.has_body
    THEN {[verdict |-> "valid", answer |-> Returns(Response("r3", 0, 0))],
          [verdict |-> "MalformedRequest", answer |-> Returns(Response("r3", 0, 0))],
          [verdict |-> "valid", answer |-> ApiError]}
    ELSE {[verdict |-> "valid", answer |-> Returns(Response("r1", 0, 0))],
          [verdict |-> "valid", answer |-> ApiError]}

\* one invocation of an alias by the caller: `run` is what the alias did,
\* `direct` what the method it names does with the same arguments
InvokeAlias(al, a, verdict, answer) ==
    /\ calls' = calls + 1
    /\ \E run \in {MethodBody(al.target, Forward(al, a), verdict, answer)},
          direct \in {MethodBody(al.target, a, verdict, answer)} :
          last' = [method |-> al.target, args |-> a, via |-> al.name,
                   run |-> run, direct |-> direct]
    /\ UNCHANGED <<api, session_headers, gen, server, vcheck, jsd>>

AliasCall(name) ==
    /\ calls < MaxCalls
    /\ \E al \in {Alias(name)} :
          \E args \in AliasArgs(al.target), payload \in AliasPayloads(al.target),
             active_validation \in AliasValidation(al.target),
             env \in AliasEnv(al.target) :
              InvokeAlias(al,
                          Call(D1("X-Request-ID", Str("x")), payload,
                               active_validation, args,
                               [k \in {"extra"} |-> Str("e")]),
                          env.verdict, env.answer)

DeviceAdministrationAuthorizationRules_get_all == AliasCall("DeviceAdministrationAuthorizationRules.get_all")

DeviceAdministrationAuthorizationRules_create == AliasCall("DeviceAdministrationAuthorizationRules.create")

DeviceAdministrationAuthorizationRules_reset_hit_counts_by_id == AliasCall("DeviceAdministrationAuthorizationRules.reset_hit_counts_by_id")

DeviceAdministrationAuthorizationRules_delete_by_id == AliasCall("DeviceAdministrationAuthorizationRules.delete_by_id")

ByodPortal_get_by_id == AliasCall("ByodPortal.get_by_id")

ByodPortal_update_by_id == AliasCall("ByodPortal.update_by_id")

ByodPortal_get_all == AliasCall("ByodPortal.get_all")

ByodPortal_create == AliasCall("ByodPortal.create")

ActiveDirectory_get_all == AliasCall("ActiveDirectory.get_all")

NetworkAccessConditions_get_all == AliasCall("NetworkAccessConditions.get_all")

NetworkAccessConditions_get_by_name == AliasCall("NetworkAccessConditions.get_by_name")

NetworkAccessConditions_update_by_name == AliasCall("NetworkAccessConditions.update_by_name")

NetworkAccessConditions_delete_by_name == AliasCall("NetworkAccessConditions.delete_by_name")

NetworkAccessConditions_get_all_for_policy_sets == AliasCall("NetworkAccessConditions.get_all_for_policy_sets")

NetworkAccessConditions_update_by_id == AliasCall("NetworkAccessConditions.update_by_id")

Next ==
    \/ get_device_admin_policy_by_id_authorization_rule_list
    \/ create_device_admin_policy_by_id_authorization_rule
    \/ delete_device_admin_policy_by_id_authorization_rule_by_id
    \/ get_byod_portal_by_id
    \/ get_byod_portal
    \/ create_byod_portal
    \/ get_user_groups
    \/ get_active_directory
    \/ get_network_access_conditions
    \/ update_network_access_condition_by_id
    \/ update_byod_portal_by_id
    \/ load_groups_from_domain
    \/ update_network_access_condition_by_name
    \/ reset_hit_counts_device_admin_policy_by_id_authorization_rules
    \/ get_network_access_condition_by_name
    \/ delete_network_access_condition_by_name
    \/ get_network_access_conditions_for_policy_sets
    \/ update_device_admin_policy_by_id_authorization_rule_by_id
    \/ create_active_directory
    \/ DeviceAdministrationAuthorizationRules_get_all
    \/ DeviceAdministrationAuthorizationRules_create
    \/ DeviceAdministrationAuthorizationRules_reset_hit_counts_by_id
    \/ DeviceAdministrationAuthorizationRules_delete_by_id
    \/ ByodPortal_get_by_id
    \/ ByodPortal_update_by_id
    \/ ByodPortal_get_all
    \/ ByodPortal_create
    \/ ActiveDirectory_get_all
    \/ NetworkAccessConditions_get_all
    \/ NetworkAccessConditions_get_by_name
    \/ NetworkAccessConditions_update_by_name
    \/ NetworkAccessConditions_delete_by_name
    \/ NetworkAccessConditions_get_all_for_policy_sets
    \/ NetworkAccessConditions_update_by_id

Spec == Init /\ [][Next]_vars

-----------------------------------------------------------------------------
(* Construction of a resource wrapper by the caller, and the calls made on  *)
(* the wrapper constructed.                                                 *)

\* what a wrapper may be constructed with as its session
SessionArgs == {RestSession, None, Str("session")}

\* the objects a wrapper may be given as its factory and its validator
ObjectFactories == {"object_factory", "other_factory"}
RequestValidators == {"request_validator", "other_validator"}

\* __init__(self, session, object_factory, request_validator):
\* check_type(session, RestSession), then the attributes are set
__init__(class, session) ==
    /\ \E factory \in ObjectFactories, validator \in RequestValidators :
          api' = IF check_type(session, {"RestSession"}, TRUE)
                 THEN [class |-> class, session |-> session,
                       object_factory |-> factory,
                       request_validator |-> validator, exc |-> "none",
                       _session |-> session,
                       _object_factory |-> factory,
                       _request_validator |-> validator]
                 ELSE [class |-> class, session |-> session,
                       object_factory |-> factory,
                       request_validator |-> validator,
                       exc |-> "TypeError",
                       _session |-> None, _object_factory |-> "",
                       _request_validator |-> ""]
    /\ UNCHANGED <<session_headers, calls, last, gen, server, vcheck, jsd>>

DeviceAdministrationAuthorizationRules ==
    /\ api = NoWrapper
    /\ \E session \in SessionArgs :
          __init__("DeviceAdministrationAuthorizationRules", session)

ByodPortal ==
    /\ api = NoWrapper
    /\ \E session \in SessionArgs : __init__("ByodPortal", session)

ActiveDirectory ==
    /\ api = NoWrapper
    /\ \E session \in SessionArgs : __init__("ActiveDirectory", session)

NetworkAccessConditions ==
    /\ api = NoWrapper
    /\ \E session \in SessionArgs : __init__("NetworkAccessConditions", session)

\* the wrapper of this class exists
Constructed(class) == api.class = class /\ api.exc = "none"

InitNew ==
    /\ api = NoWrapper
    /\ session_headers \in SessionHeaders
    /\ calls = 0
    /\ last = NoCall
    /\ gen = NoGenerator
    /\ server = [p \in 1..MaxPages |-> 0]
    /\ vcheck = NoCheck
    /\ jsd = [v \in Validators |-> Compile(v)]

NextNew ==
    \/ DeviceAdministrationAuthorizationRules
    \/ ByodPortal
    \/ ActiveDirectory
    \/ NetworkAccessConditions
    \/ Constructed("DeviceAdministrationAuthorizationRules")
          /\ get_device_admin_policy_by_id_authorization_rule_list
    \/ Constructed("ByodPortal") /\ get_byod_portal_by_id
    \/ Constructed("ActiveDirectory") /\ get_active_directory
    \/ Constructed("NetworkAccessConditions") /\ get_network_access_conditions

SpecNew == InitNew /\ [][NextNew]_vars

\* C15 as stated: constructing a wrapper with a session that is not a
\* RestSession raises TypeError, so every wrapper that exists holds a
\* RestSession as its session.
HoldsRestSession ==
    /\ (api.class # "" /\ api.session.t # "RestSession") => api.exc = "TypeError"
    /\ (api.class # "" /\ api.exc = "none") => api._session.t = "RestSession"

\* the attributes the constructor sets on a wrapper
WrapperAttributes == {"_session", "_object_factory", "_request_validator"}

\* C23: a wrapper is stateless across calls: whatever methods are called, its
\* _session, _object_factory and _request_validator stay the objects given at
\* construction and it has no other attribute; a call with the method and
\* arguments of the call before it issues its own HTTP call and returns the
\* factory's wrapping of its own response.
WrapperStateless ==
    /\ [](Constructed(api.class) =>
            /\ api._session = api.session
            /\ api._object_factory = api.object_factory
            /\ api._request_validator = api.request_validator
            /\ {f \in DOMAIN api : f \in WrapperAttributes} = WrapperAttributes
            /\ DOMAIN api \ WrapperAttributes =
                  {"class", "session", "object_factory", "request_validator", "exc"})
    /\ [][api.class # "" => api' = api]_vars
    /\ [][(/\ calls' = calls + 1
            /\ last'.method = last.method /\ last'.args = last.args
            /\ last'.run.exc \in {"none", "ApiError"}) =>
              /\ Len(last'.run.http) = 1
              /\ last'.run.exc = "none" =>
                    last'.run.result =
                        object_factory(Method(last'.method).model,
                                       last'.run.http[1].response)]_vars

\* a call on a wrapper returned one response, and the same call made again
\* issues its own HTTP call and returns another response
SecondCallAnsweredAnew ==
    /\ Constructed("NetworkAccessConditions")
    /\ api._object_factory = "other_factory"
    /\ calls = 1
    /\ last.method = "get_network_access_conditions"
    /\ last.run.result = object_factory(Method(last.method).model,
                                        Response("r1", 0, 0))
    /\ ENABLED (/\ get_network_access_conditions
                /\ last'.args = last.args
                /\ api' = api
                /\ Len(last'.run.http) = 1
                /\ last'.run.result = object_factory(Method(last.method).model,
                                                     Response("r2", 0, 0)))


-----------------------------------------------------------------------------
(* Properties of one wrapper method invocation, read off `last` *)

Invoked == last.method # ""
HasBody == Invoked /\ Method(last.method).payload.has_body

\* the positions of an event in the invocation's trace
At(e) == {i \in DOMAIN last.run.trace : last.run.trace[i] = e}

\* the headers argument and the path and query arguments pass their check_type
HeadersWellTyped ==
    /\ last.args.headers.t \in {"None", "dict"}
    /\ last.args.headers.t = "dict" =>
          \A c \in Method(last.method).checks :
              c.name \in DOMAIN last.args.headers.d =>
                  \/ last.args.headers.d[c.name].t = "str"
                  \/ c.may_be_none /\ last.args.headers.d[c.name].t = "None"

ArgsWellTyped ==
    /\ \A i \in DOMAIN Method(last.method).path :
          last.args.args[Method(last.method).path[i].arg].t = "str"
    /\ \A i \in DOMAIN Method(last.method).query :
          last.args.args[Method(last.method).query[i].arg].t
              \in Method(last.method).query[i].types \cup {"None"}

\* C1: in a body-carrying method called with active_validation on a JSON body,
\* validate() is handed the fully assembled body before the session is called,
\* and when validate() raises MalformedRequest the method raises it and no
\* HTTP call is issued.
ValidatedBeforeSent ==
    (HasBody /\ last.args.active_validation /\ ~last.run.is_xml_payload) =>
        /\ \A i \in At("session") : \E j \in At("validate") : j < i
        /\ \A i \in DOMAIN last.run.http :
              /\ last.run.validated # <<>>
              /\ last.run.http[i].request.body = last.run.validated[1].body
        /\ last.run.exc \in {"none", "ApiError", "MalformedRequest"} =>
              /\ Len(last.run.validated) = 1
              /\ last.run.validated[1].validator =
                    Method(last.method).payload.validator
              /\ last.run.validated[1].body = last.run.payload
              /\ last.run.validated[1].body.t = "dict"
        /\ \A k \in DOMAIN last.run.validated :
              last.run.validated[k].verdict = "MalformedRequest" =>
                  /\ last.run.exc = "MalformedRequest"
                  /\ last.run.http = <<>>
                  /\ At("session") = {}

\* a JSON body was rejected by the validator
MalformedRequestRaised ==
    /\ HasBody /\ last.args.active_validation /\ ~last.run.is_xml_payload
    /\ last.run.validated # <<>>
    /\ last.run.validated[1].verdict = "MalformedRequest"
    /\ DOMAIN last.run.payload.d # {}

\* C2: an invocation that returns normally has issued exactly one HTTP call on
\* the session, with the method's one verb, whatever headers, payload and
\* validation were used.
ExactlyOneHttpCall ==
    (Invoked /\ last.run.exc = "none") =>
        /\ Len(last.run.http) = 1
        /\ Cardinality(At("session")) = 1
        /\ last.run.http[1].request.verb = Method(last.method).verb
        /\ last.run.http[1].request.verb \in {"get", "post", "put", "delete"}

\* a body-carrying method returned normally with custom headers, a payload and
\* validation
ReturnedNormally ==
    /\ HasBody /\ last.run.exc = "none"
    /\ last.run.with_custom_headers
    /\ Truthy(last.args.payload)
    /\ last.run.validated # <<>>

\* C5: the session is called at most once in an invocation; when the call
\* raises, the error reaches the caller, the object factory is not invoked and
\* the call is not issued again.
NoRetry ==
    Invoked =>
        /\ Len(last.run.http) <= 1
        /\ Cardinality(At("session")) <= 1
        /\ \A i \in DOMAIN last.run.http :
              last.run.http[i].raises =>
                  /\ last.run.exc = "ApiError"
                  /\ last.run.made = <<>>
                  /\ At("factory") = {}
                  /\ last.run.result = NoResult

\* the session call of a DELETE raised
SessionRaised ==
    /\ Invoked /\ Method(last.method).verb = "delete"
    /\ last.run.http # <<>>
    /\ last.run.http[1].raises

\* C6: a method returns the object factory's result for its own model
\* identifier and the raw response of the session call; the factory is called
\* once, after the HTTP call, with the response unmodified.
ReturnsFactoryResult ==
    Invoked =>
        /\ last.run.exc = "none" =>
              /\ last.run.made =
                    <<[model |-> Method(last.method).model,
                       response |-> last.run.http[1].response]>>
              /\ last.run.result =
                    object_factory(Method(last.method).model,
                                   last.run.http[1].response)
              /\ Cardinality(At("factory")) = 1
              /\ \A i \in At("factory") : \A j \in At("session") : j < i
        /\ last.run.exc # "none" =>
              /\ last.run.made = <<>>
              /\ last.run.result = NoResult

\* a method by id returned the wrapped second response
FactoryResultReturned ==
    /\ Invoked /\ last.method = "get_byod_portal_by_id"
    /\ last.run.exc = "none"
    /\ last.run.result.response.content = "r2"

Sent == last.run.http[1].request

\* body holds the named body arguments that are not None: under the wrapper
\* key in the ERS wrappers, at the top level otherwise, a key of payload
\* taking the place of the argument it names
HoldsNamedArguments(body) ==
    LET wrapper == Method(last.method).payload.wrapper
        entries == Method(last.method).payload.body
        given == IF Truthy(last.args.payload) /\ last.args.payload.t = "dict"
                 THEN last.args.payload.d ELSE EmptyFn
    IN  /\ body.t = "dict"
        /\ wrapper = "" =>
              \A i \in DOMAIN entries :
                  LET key == entries[i].key
                      value == last.args.args[entries[i].arg]
                      kept == IF key \in DOMAIN given THEN given[key] ELSE value
                  IN  IF kept.t = "None" THEN key \notin DOMAIN body.d
                      ELSE /\ key \in DOMAIN body.d
                           /\ body.d[key] = kept
        /\ wrapper # "" =>
              /\ wrapper \in DOMAIN body.d
              /\ wrapper \in DOMAIN given => body.d[wrapper] = given[wrapper]
              /\ wrapper \notin DOMAIN given =>
                    /\ body.d[wrapper].t = "dict"
                    /\ \A i \in DOMAIN entries :
                          LET key == entries[i].key
                              value == last.args.args[entries[i].arg]
                          IN  IF value.t = "None"
                              THEN key \notin DOMAIN body.d[wrapper].d
                              ELSE /\ key \in DOMAIN body.d[wrapper].d
                                   /\ body.d[wrapper].d[key] = value

\* C9 as stated: the body sent is assembled from the named body arguments,
\* for JSON and for XML content types alike.
BodyFromNamedArguments ==
    (HasBody /\ last.run.http # <<>>) => HoldsNamedArguments(Sent.body)

\* C9: on the JSON path the body sent is assembled from the named body
\* arguments, overlaid at the top level by payload; on the XML path the body
\* sent is the payload argument itself and the named body arguments are unused.
BodyAssembled ==
    (HasBody /\ last.run.http # <<>>) =>
        /\ Sent.kind = IF last.run.is_xml_payload THEN "data" ELSE "json"
        /\ Sent.kind = "json" =>
              /\ HoldsNamedArguments(Sent.body)
              /\ \A k \in DOMAIN Sent.body.d : Sent.body.d[k].t # "None"
        /\ Sent.kind = "data" => Sent.body = last.args.payload

\* a body went out on the XML path while named body arguments were given
XmlPayloadSentAsIs ==
    /\ HasBody /\ last.run.http # <<>>
    /\ Sent.kind = "data"
    /\ \E i \in DOMAIN Method(last.method).payload.body :
          last.args.args[Method(last.method).payload.body[i].arg].t # "None"
    /\ Sent.body = last.args.payload

\* the placeholders a URL template may hold
PlaceholderNames == {"policyId", "ruleId", "id", "name"}

IsPlaceholder(token) == \E k \in PlaceholderNames : token = Brace(k)

\* the placeholders of m's template, and the keys of its path_params
Placeholders(m) ==
    {Method(m).e_url[i] : i \in {j \in DOMAIN Method(m).e_url :
                                    IsPlaceholder(Method(m).e_url[j])}}

PathKeys(m) == {Method(m).path[i].key : i \in DOMAIN Method(m).path}

\* C11: the URL requested is the method's template with each {placeholder}
\* replaced by the path argument path_params gives for it; the placeholders of
\* the template are exactly the keys of path_params, so the URL holds no
\* unsubstituted placeholder and every path parameter is used.
UrlFromTemplate ==
    (Invoked /\ last.run.http # <<>>) =>
        LET template == Method(last.method).e_url
            path == Method(last.method).path
        IN  /\ Placeholders(last.method) = {Brace(k) : k \in PathKeys(last.method)}
            /\ DOMAIN Sent.url = DOMAIN template
            /\ \A i \in DOMAIN template :
                  /\ ~IsPlaceholder(Sent.url[i])
                  /\ ~IsPlaceholder(template[i]) => Sent.url[i] = template[i]
                  /\ \A j \in DOMAIN path :
                        template[i] = Brace(path[j].key) =>
                            /\ last.args.args[path[j].arg].t = "str"
                            /\ Sent.url[i] = last.args.args[path[j].arg].s
            /\ \A j \in DOMAIN path :
                  \E i \in DOMAIN template : template[i] = Brace(path[j].key)

\* a request went out on a template of two placeholders, each replaced by its
\* own argument
TwoPlaceholdersReplaced ==
    /\ Invoked /\ last.run.http # <<>>
    /\ last.method = "delete_device_admin_policy_by_id_authorization_rule_by_id"
    /\ Sent.url = <<"/v1/policy/device-admin/policy-set/", "p1",
                    "/authorization/", "p2">>

\* the named query arguments that are not None are in params under their API
\* keys and those that are None are not, a key of `over` taking the place of
\* the argument it names when overriding is TRUE
HoldsNamedParameters(params, over, overriding) ==
    \A i \in DOMAIN Method(last.method).query :
        LET key == Method(last.method).query[i].key
            value == last.args.args[Method(last.method).query[i].arg]
            kept == IF overriding /\ key \in DOMAIN over THEN over[key] ELSE value
        IN  IF kept.t = "None" THEN key \notin DOMAIN params
            ELSE /\ key \in DOMAIN params
                 /\ params[key] = kept

\* C12 as stated: a named body argument or query parameter that is None is not
\* in the JSON body or the query parameters sent, one that is not None is
\* there under its API key, unless a payload key overrides it.
DictionaryFiltering ==
    (Invoked /\ last.run.http # <<>>) =>
        /\ HoldsNamedParameters(Sent.params, last.args.query_parameters, FALSE)
        /\ Sent.kind = "json" => HoldsNamedArguments(Sent.body)

\* C12: a named body argument or query parameter that is None is not in the
\* JSON body or the query parameters sent, one that is not None is there under
\* its API key, unless a payload key or, for a query parameter, a key of
\* **query_parameters overrides it; no None value is sent.
DictionaryFilteringWithKeywords ==
    (Invoked /\ last.run.http # <<>>) =>
        /\ HoldsNamedParameters(Sent.params, last.args.query_parameters, TRUE)
        /\ \A k \in DOMAIN Sent.params : Sent.params[k].t # "None"
        /\ Sent.kind = "json" =>
              /\ HoldsNamedArguments(Sent.body)
              /\ \A k \in DOMAIN Sent.body.d : Sent.body.d[k].t # "None"

\* a list request went out with a named query argument given, another None,
\* and a third named by a key of **query_parameters too
NoneDropped ==
    /\ Invoked /\ last.run.http # <<>>
    /\ last.method = "get_byod_portal"
    /\ last.args.args["page"] = PyInt("2")
    /\ last.args.args["filter"] = None
    /\ last.args.args["filter_type"] = Str("AND")
    /\ last.args.query_parameters = [k \in {"filterType"} |-> Str("OR")]
    /\ Sent.params = [k \in {"page", "filterType"} |->
                         IF k = "page" THEN PyInt("2") ELSE Str("OR")]

\* the path arguments of the invocation that are None or not a string
IllTypedPathArgs ==
    {Method(last.method).path[i].arg : i \in
        {j \in DOMAIN Method(last.method).path :
            last.args.args[Method(last.method).path[j].arg].t # "str"}}

\* C13: a method called with a required path argument that is None or not a
\* string raises TypeError, issues no HTTP call and does not call the request
\* validator.
PathArgumentChecked ==
    (Invoked /\ IllTypedPathArgs # {}) =>
        /\ last.run.exc = "TypeError"
        /\ last.run.http = <<>>
        /\ last.run.validated = <<>>
        /\ At("session") = {} /\ At("validate") = {} /\ At("factory") = {}

\* a body-carrying method with validation on and well-typed headers and
\* payload was called with id=None
NonePathArgumentRefused ==
    /\ HasBody /\ last.args.active_validation
    /\ HeadersWellTyped /\ last.args.payload.t = "dict"
    /\ ~last.run.is_xml_payload
    /\ IllTypedPathArgs = {"id"}
    /\ last.args.args["id"] = None
    /\ last.run.exc = "TypeError"

\* C14: an alias method does what the method it names does with the same
\* arguments: the same validator calls, the same HTTP call (verb, URL, query
\* parameters, headers, body), the same result or exception.
AliasEquivalent ==
    (Invoked /\ last.via # "caller") =>
        /\ last.run.validated = last.direct.validated
        /\ last.run.http = last.direct.http
        /\ last.run.made = last.direct.made
        /\ last.run.exc = last.direct.exc
        /\ last.run.result = last.direct.result
        /\ last.run.trace = last.direct.trace

\* an alias of a body-carrying method was called with headers, a payload,
\* named arguments and a keyword parameter, and the request went out
AliasForwardedAll ==
    /\ HasBody /\ last.via = "ByodPortal.update_by_id"
    /\ last.args.payload = D1("extra", Str("e"))
    /\ last.run.http # <<>>
    /\ Sent.headers.t = "dict"
    /\ "X-Request-ID" \in DOMAIN Sent.headers.d
    /\ Sent.params = [k \in {"extra"} |-> Str("e")]
    /\ Sent.url = <<"/ers/config/byodportal/", "id">>
    /\ DOMAIN Sent.body.d = {"BYODPortal", "extra"}
    /\ last.run.exc = "none"

\* the headers the invocation handed to the session are the session's default
\* headers overlaid with the call's own headers argument; with no headers
\* argument none are handed over and the session sends its defaults
OwnHeadersOnly ==
    (Invoked /\ last.run.http # <<>>) =>
        IF Truthy(last.args.headers)
        THEN Sent.headers =
                 Dict(Update(session_headers, dict_of_str(last.args.headers.d)))
        ELSE Sent.headers = None

GivenPayload ==
    IF Truthy(last.args.payload) /\ last.args.payload.t = "dict"
    THEN last.args.payload.d ELSE EmptyFn

BuiltFromNamed ==
    LET named == Named(Method(last.method).payload.body, last.args)
        wrapper == Method(last.method).payload.wrapper
    IN  IF wrapper = "" THEN named
        ELSE [k \in {wrapper} |-> Dict(dict_from_items_with_values(named))]

\* C17: in a JSON body, a top-level key that payload and the body built from
\* the named arguments both have is sent with payload's value, a key only one
\* of them has with that one's value; a None value is not sent, and no other
\* key is.
PayloadPrecedence ==
    (HasBody /\ last.run.http # <<>> /\ Sent.kind = "json") =>
        /\ Sent.body.t = "dict"
        /\ DOMAIN Sent.body.d \subseteq DOMAIN BuiltFromNamed \cup DOMAIN GivenPayload
        /\ \A k \in DOMAIN BuiltFromNamed \cup DOMAIN GivenPayload :
              LET value == IF k \in DOMAIN GivenPayload THEN GivenPayload[k]
                           ELSE BuiltFromNamed[k]
              IN  IF value.t = "None" THEN k \notin DOMAIN Sent.body.d
                  ELSE /\ k \in DOMAIN Sent.body.d
                       /\ Sent.body.d[k] = value

\* a body went out in which payload's id took the place of the id argument
\* and the name argument stayed
PayloadIdSent ==
    /\ HasBody /\ last.run.http # <<>> /\ Sent.kind = "json"
    /\ last.method = "update_network_access_condition_by_id"
    /\ last.args.args["id"] = Str("p1")
    /\ last.args.payload = D1("id", Str("p2"))
    /\ Sent.body = D2("id", Str("p2"), "name", Str("n1"))

\* the wrapper key of the method invoked ("" when its body is flat)
WrapperKey == Method(last.method).payload.wrapper

\* C18: in a method that nests its JSON body under a wrapper key, a payload
\* that has the wrapper key replaces the whole wrapper object: the object sent
\* under the key is payload's, and no named argument, the id copied from the
\* path included, is in it unless payload's object has it.
WrapperReplaced ==
    (/\ HasBody /\ last.run.http # <<>> /\ Sent.kind = "json"
     /\ WrapperKey # "" /\ WrapperKey \in DOMAIN GivenPayload
     /\ GivenPayload[WrapperKey].t = "dict") =>
        /\ WrapperKey \in DOMAIN Sent.body.d
        /\ Sent.body.d[WrapperKey] = GivenPayload[WrapperKey]
        /\ \A i \in DOMAIN Method(last.method).payload.body :
              LET key == Method(last.method).payload.body[i].key
              IN  key \in DOMAIN Sent.body.d[WrapperKey].d =>
                      /\ key \in DOMAIN GivenPayload[WrapperKey].d
                      /\ Sent.body.d[WrapperKey].d[key] =
                            GivenPayload[WrapperKey].d[key]

\* an update by id went out whose payload had the wrapper key: the body holds
\* payload's object, without the id and without the name argument's value
NamedArgumentsLost ==
    /\ HasBody /\ last.run.http # <<>> /\ Sent.kind = "json"
    /\ last.method = "update_byod_portal_by_id"
    /\ last.args.args["id"] = Str("p1")
    /\ last.args.args["name"] = Str("n1")
    /\ Sent.url = <<"/ers/config/byodportal/", "p1">>
    /\ Sent.body = D1("BYODPortal", D1("name", Str("n2")))

\* the update methods that copy a path argument into the body, and the key
\* it is copied under
CopiesPathArgument ==
    {"update_byod_portal_by_id", "load_groups_from_domain",
     "update_network_access_condition_by_id",
     "update_network_access_condition_by_name"}

CopiedKey ==
    IF last.method = "update_network_access_condition_by_name" THEN "name" ELSE "id"

\* the object of the JSON body that holds the named arguments, and payload's
\* counterpart of it
BodyObject ==
    IF WrapperKey = "" THEN Sent.body.d
    ELSE IF WrapperKey \in DOMAIN Sent.body.d /\ Sent.body.d[WrapperKey].t = "dict"
    THEN Sent.body.d[WrapperKey].d ELSE EmptyFn

PayloadObject ==
    IF WrapperKey = "" THEN GivenPayload
    ELSE IF WrapperKey \in DOMAIN GivenPayload /\ GivenPayload[WrapperKey].t = "dict"
    THEN GivenPayload[WrapperKey].d ELSE EmptyFn

\* the value substituted into the URL for the placeholder of CopiedKey
UrlArgument ==
    Sent.url[CHOOSE i \in DOMAIN Method(last.method).e_url :
                 Method(last.method).e_url[i] = Brace(CopiedKey)]

BodyMatchesUrl ==
    /\ CopiedKey \in DOMAIN BodyObject
    /\ BodyObject[CopiedKey] = Str(UrlArgument)

\* C19 as stated: when payload supplies no id (name) of its own, the id (name)
\* in the JSON body equals the one substituted into the URL.
BodyIdIsUrlId ==
    (/\ Invoked /\ last.method \in CopiesPathArgument
     /\ last.run.http # <<>> /\ Sent.kind = "json"
     /\ CopiedKey \notin DOMAIN PayloadObject) => BodyMatchesUrl

\* C19: when payload supplies no id (name) of its own and, in the methods that
\* nest the body under a wrapper key, does not have the wrapper key either,
\* the id (name) in the JSON body equals the one substituted into the URL.
BodyIdIsUrlIdUnlessReplaced ==
    (/\ Invoked /\ last.method \in CopiesPathArgument
     /\ last.run.http # <<>> /\ Sent.kind = "json"
     /\ CopiedKey \notin DOMAIN PayloadObject
     /\ WrapperKey \notin DOMAIN GivenPayload) => BodyMatchesUrl

\* an update by id went out with a payload that has neither the wrapper key
\* nor an id: the body's id is the path's
PathIdCopied ==
    /\ Invoked /\ last.method = "update_byod_portal_by_id"
    /\ last.run.http # <<>> /\ Sent.kind = "json"
    /\ last.args.payload = D1("extra", Str("e"))
    /\ Sent.url = <<"/ers/config/byodportal/", "p1">>
    /\ Sent.body.d["BYODPortal"].d["id"] = Str("p1")

\* the session's default headers overlaid by the call's headers argument
MergedHeaders ==
    IF Truthy(last.args.headers) /\ last.args.headers.t = "dict"
    THEN Update(session_headers, dict_of_str(last.args.headers.d))
    ELSE session_headers

MergedContentTypeIsXml ==
    /\ "Content-Type" \in DOMAIN MergedHeaders
    /\ MergedHeaders["Content-Type"].s
          \in {"application/xml", "application/xml;charset=utf-8"}

\* C20: a body-carrying method takes the XML path exactly when the merged
\* headers have a Content-Type containing application/xml; the body is handed
\* to the session as data= on the XML path and as json= otherwise, in one
\* keyword only.
XmlPathIffXmlContentType ==
    (HasBody /\ last.run.http # <<>>) =>
        /\ last.run.is_xml_payload <=> MergedContentTypeIsXml
        /\ Sent.kind = IF MergedContentTypeIsXml THEN "data" ELSE "json"
        /\ MergedContentTypeIsXml => Sent.body = last.args.payload
        /\ ~MergedContentTypeIsXml => Sent.body.t = "dict"

\* on a session whose default Content-Type is XML a call without headers of
\* its own handed its payload over as data=
XmlBySessionDefault ==
    /\ HasBody /\ last.run.http # <<>>
    /\ session_headers["Content-Type"] = Str("application/xml;charset=utf-8")
    /\ last.args.headers = None
    /\ Sent.kind = "data"
    /\ Sent.body = Str("<portal/>")

\* the type check that active_validation enables on the XML path refuses payload
XmlPayloadRefused ==
    /\ last.args.active_validation
    /\ last.args.payload.t \notin {"str", "None"}

\* C21: on the XML path the request validator is never called, whatever
\* active_validation is; the body is refused (TypeError, no HTTP call) only
\* when active_validation is on and payload is neither a string nor None, and
\* otherwise payload itself is what the one HTTP call carries as data=.
XmlBodyNeverValidated ==
    (HasBody /\ HeadersWellTyped /\ MergedContentTypeIsXml) =>
        /\ last.run.validated = <<>>
        /\ At("validate") = {}
        /\ XmlPayloadRefused =>
              /\ last.run.exc = "TypeError"
              /\ last.run.http = <<>>
        /\ (~XmlPayloadRefused /\ IllTypedPathArgs = {}) =>
              /\ last.run.exc \in {"none", "ApiError"}
              /\ Len(last.run.http) = 1
              /\ Sent.kind = "data"
              /\ Sent.body = last.args.payload

\* create_active_directory, validation on, sent an XML string untouched and
\* the validator was not called
XmlStringSentUnvalidated ==
    /\ last.method = "create_active_directory"
    /\ last.args.active_validation
    /\ last.args.headers = XmlHeaders
    /\ last.args.payload = Str("<ad/>")
    /\ last.args.args["name"] = Str("n1")
    /\ last.run.validated = <<>>
    /\ Len(last.run.http) = 1
    /\ Sent.kind = "data"
    /\ Sent.body = Str("<ad/>")

-----------------------------------------------------------------------------
(* The list generators.  A *_generator method hands its list method and its *)
(* arguments to get_next_page; the frame of get_next_page is the generator  *)
(* object `gen`.                                                            *)

\* the methods that return one page of a collection
ListMethods ==
    {"get_byod_portal", "get_active_directory", "get_network_access_conditions",
     "get_device_admin_policy_by_id_authorization_rule_list"}

get_byod_portal_generator_def ==
    [function |-> "get_byod_portal",
     access_next_list |-> <<"SearchResult", "nextPage", "href">>,
     access_resource_list |-> <<"SearchResult", "resources">>]

\* variant: the next link is looked up under another key
get_active_directory_generator_other ==
    [function |-> "get_active_directory",
     access_next_list |-> <<"response", "nextPage", "href">>,
     access_resource_list |-> <<"response">>]

get_active_directory_generator_def ==
    [function |-> "get_active_directory",
     access_next_list |-> <<"SearchResult", "nextPage", "href">>,
     access_resource_list |-> <<"SearchResult", "resources">>]

\* the generator methods the wrappers define
Generators ==
    [g \in {"get_byod_portal_generator", "get_active_directory_generator"} |->
        IF g = "get_byod_portal_generator" THEN get_byod_portal_generator_def
        ELSE get_active_directory_generator_def]

\* page as a query argument, and back
PageArg(p) == PyInt(ToString(p))
PageNo(v) ==
    IF \E p \in 1..(MaxPages + 1) : v.s = ToString(p)
    THEN CHOOSE p \in 1..(MaxPages + 1) : v.s = ToString(p)
    ELSE 0

\* the page a list request asks for: its page parameter, by default the first
RequestedPage(request) ==
    IF "page" \in DOMAIN request.params THEN PageNo(request.params["page"]) ELSE 1

\* the remote service's answer to a list request
Serve(request) ==
    IF RequestedPage(request) \in 1..MaxPages
    THEN Returns(Response("page", RequestedPage(request),
                          server[RequestedPage(request)]))
    ELSE ApiError

\* the request a call of list method m with arguments a issues, when it gets
\* that far
ListRequest(m, a) ==
    LET merged == {CheckHeaders(Frame(m), m, a)}
        checked == {CheckArgs(st, m, a) : st \in merged}
        with_params == {BuildParams(st, m, a) : st \in checked}
    IN  CHOOSE request \in {Request(st, m, a) : st \in with_params} : TRUE

\* function(**params) inside get_next_page: the list method runs and the
\* remote service answers, or fails
CallList(m, a, fails) ==
    CHOOSE run \in {MethodBody(m, a, "valid", answer) :
                       answer \in {IF fails THEN ApiError
                                   ELSE Serve(ListRequest(m, a))}} : TRUE

\* get_next_page(function, params, access_next_list, access_resource_list):
\* the generator object before its first next()
get_next_page(function, params, access_next_list) ==
    [status |-> "created", function |-> function, params |-> params,
     access_next_list |-> access_next_list, requested |-> 0,
     issued |-> <<>>, yielded |-> <<>>]

\* the link of a yielded page, read along access_next_list: 0 when there is none
NextLink(page, access_next_list) ==
    IF access_next_list = <<"SearchResult", "nextPage", "href">>
    THEN page.response.next ELSE 0

\* the arguments of the request that follows a link
FollowLink(params, link) ==
    [params EXCEPT !.args = [n \in DOMAIN @ |-> IF n = "page" THEN PageArg(link) ELSE @[n]]]

\* variant: the generator method is an ordinary function that fetches the
\* first page when it is called
OpenGeneratorEager(g, a) ==
    /\ \E run \in {CallList(Generators[g].function, a, FALSE)} :
          gen' = [get_next_page(Generators[g].function, a,
                                Generators[g].access_next_list)
                     EXCEPT !.issued = run.http]
    /\ UNCHANGED <<api, session_headers, calls, last, server, vcheck, jsd>>

\* calling a generator method creates the generator object and runs nothing
OpenGenerator(g, a) ==
    /\ gen' = get_next_page(Generators[g].function, a, Generators[g].access_next_list)
    /\ UNCHANGED <<api, session_headers, calls, last, server, vcheck, jsd>>

get_byod_portal_generator ==
    /\ gen.status = "none"
    /\ \E headers \in {None, JsonHeaders},
          page \in {None} \cup {PageArg(p) : p \in 1..MaxPages},
          filter \in {Str("name.EQ.x")} :
           OpenGenerator("get_byod_portal_generator",
                         Call(headers, None, TRUE,
                              Args("get_byod_portal", [page |-> page, filter |-> filter]),
                              EmptyFn))

get_active_directory_generator ==
    /\ gen.status = "none"
    /\ \E headers \in {None, JsonHeaders}, page \in {None, PageArg(2), D1("p", None)} :
           OpenGenerator("get_active_directory_generator",
                         Call(headers, None, TRUE,
                              Args("get_active_directory", [page |-> page]), EmptyFn))

\* next(generator): the first request, or the request that follows the link of
\* the page yielded last; without a link the generator is exhausted
Resume(fails) ==
    /\ gen.status \in {"created", "suspended"}
    /\ \E n \in {Len(gen.yielded)} :
       \E link \in {IF n = 0 THEN 0
                    ELSE NextLink(gen.yielded[n], gen.access_next_list)} :
       \E a \in {IF n = 0 THEN gen.params ELSE FollowLink(gen.params, link)} :
       \E run \in {CallList(gen.function, a, fails)} :
           IF n > 0 /\ link = 0
           THEN /\ gen' = [gen EXCEPT !.status = "done", !.requested = @ + 1]
                /\ UNCHANGED last
           ELSE /\ Len(gen.issued) < MaxRequests
                /\ gen' = [gen EXCEPT
                             !.status = IF run.exc = "none" THEN "suspended"
                                        ELSE "failed",
                             !.params = a,
                             !.requested = @ + 1,
                             !.issued = @ \o run.http,
                             !.yielded = IF run.exc = "none"
                                         THEN Append(@, run.result) ELSE @]
                /\ last' = [method |-> gen.function, args |-> a,
                            via |-> "get_next_page", run |-> run]
    /\ UNCHANGED <<api, session_headers, calls, server, vcheck, jsd>>

next_page == \E fails \in BOOLEAN : Resume(fails)

\* the links a page may carry: none, to the page after it, to the one after that
Links(p) == {0, (p % MaxPages) + 1, ((p + 1) % MaxPages) + 1}

InitPage ==
    /\ api = ApiWrapper
    /\ session_headers \in SessionHeaders
    /\ calls = 0
    /\ last = NoCall
    /\ gen = NoGenerator
    /\ server \in {f \in [1..MaxPages -> 0..MaxPages] :
                     \A p \in 1..MaxPages : f[p] \in Links(p)}
    /\ vcheck = NoCheck
    /\ jsd = [v \in Validators |-> Compile(v)]

NextPage ==
    \/ get_byod_portal_generator
    \/ get_active_directory_generator
    \/ next_page

SpecPage == InitPage /\ [][NextPage]_vars

\* a consumer that exhausts the generator, and a service that does not fail
SpecConsume == SpecPage /\ WF_vars(Resume(FALSE))

-----------------------------------------------------------------------------
(* Properties of the list generators, read off `gen` *)

\* the pages reached from page p along the server's links, at most n of them
RECURSIVE Chain(_, _)
Chain(p, n) ==
    IF p = 0 \/ n = 0 THEN <<>> ELSE <<p>> \o Chain(server[p], n - 1)

\* the chain that starts at page p ends: it does not run into a cycle
FiniteChain(p) == Len(Chain(p, MaxPages + 1)) <= MaxPages

\* the page the first request of a generator asks for
StartPage(params) ==
    IF params.args["page"].t = "None" THEN 1 ELSE PageNo(params.args["page"])

\* C3: the k-th page yielded is the response of the k-th list request; each
\* request after the first asks for the page the nextPage.href link of the
\* previous response names; the generator stops after the first response
\* without a link; no page is skipped, duplicated or reordered.
PagesInOrder ==
    gen.status # "none" =>
        /\ Len(gen.yielded) <= Len(gen.issued)
        /\ Len(gen.issued) <= Len(gen.yielded) + 1
        /\ gen.status \in {"suspended", "done"} => Len(gen.issued) = Len(gen.yielded)
        /\ \A k \in DOMAIN gen.yielded :
              /\ ~gen.issued[k].raises
              /\ gen.yielded[k] = object_factory(Method(gen.function).model,
                                                 gen.issued[k].response)
              /\ gen.yielded[k].response.page = RequestedPage(gen.issued[k].request)
              /\ gen.yielded[k].response.next = server[gen.yielded[k].response.page]
        /\ \A k \in DOMAIN gen.issued :
              k > 1 => /\ gen.yielded[k - 1].response.next # 0
                       /\ RequestedPage(gen.issued[k].request) =
                             gen.yielded[k - 1].response.next
        /\ gen.status = "done" =>
              /\ gen.yielded # <<>>
              /\ gen.yielded[Len(gen.yielded)].response.next = 0

\* a generator followed a link to a page that is not the next in number
LinkFollowed ==
    /\ Len(gen.yielded) >= 2
    /\ gen.yielded[1].response.page = 1
    /\ gen.yielded[1].response.next = 3
    /\ gen.yielded[2].response.page = 3

\* C4: when the chain of nextPage links is finite with N pages, a generator
\* that is fully consumed terminates, having issued exactly N list requests
\* and yielded exactly N pages.
FiniteChainConsumed ==
    /\ [](gen.status = "done" =>
            LET N == Len(Chain(RequestedPage(gen.issued[1].request), MaxPages + 1))
            IN  /\ FiniteChain(RequestedPage(gen.issued[1].request))
                /\ Len(gen.issued) = N
                /\ Len(gen.yielded) = N)
    /\ (/\ gen.status = "created"
        /\ gen.params.args["page"].t \in {"None", "int"}
        /\ FiniteChain(StartPage(gen.params)))
          ~> (gen.status \in {"done", "failed"})
    /\ [][gen.status \in {"done", "failed"} => UNCHANGED gen]_vars

\* a generator consumed a chain of all the pages the server holds
WholeChainConsumed ==
    /\ gen.status = "done"
    /\ Len(gen.issued) = MaxPages
    /\ Len(gen.yielded) = MaxPages

\* C10 as stated: every list method is paginated through get_next_page: a
\* generator over it can be opened.
EveryListMethodPaginated ==
    gen.status = "none" =>
        \A m \in ListMethods : ENABLED (NextPage /\ gen'.function = m)

\* C10: of the list methods, get_byod_portal and get_active_directory are
\* paginated through get_next_page, both along SearchResult.nextPage.href;
\* get_network_access_conditions and
\* get_device_admin_policy_by_id_authorization_rule_list have no generator.
ErsListMethodsPaginated ==
    /\ \A m \in ListMethods :
          (\E g \in DOMAIN Generators : Generators[g].function = m)
              <=> m \in {"get_byod_portal", "get_active_directory"}
    /\ gen.status # "none" =>
          /\ gen.function \in {"get_byod_portal", "get_active_directory"}
          /\ gen.access_next_list = <<"SearchResult", "nextPage", "href">>
    /\ last.via = "get_next_page" =>
          /\ last.method = gen.function
          /\ last.method \in {"get_byod_portal", "get_active_directory"}

\* get_next_page called get_active_directory for a page
ActiveDirectoryPaged ==
    /\ gen.function = "get_active_directory"
    /\ last.via = "get_next_page"
    /\ last.method = "get_active_directory"
    /\ gen.yielded # <<>>

\* C22: creating a list generator issues no HTTP request and calls no list
\* method; at every moment the number of list requests issued is at most the
\* number of pages the consumer has asked for with next(), and so is the
\* number of pages yielded: no page is fetched ahead.
LazyPagination ==
    /\ [](/\ gen.status \in {"none", "created"} =>
                /\ gen.requested = 0
                /\ gen.issued = <<>>
          /\ Len(gen.issued) <= gen.requested
          /\ Len(gen.yielded) <= Len(gen.issued))
    /\ [][gen.status = "none" =>
              /\ gen'.status = "created"
              /\ gen'.issued = <<>>
              /\ last' = last]_vars
    /\ [][gen.status # "none" =>
              /\ gen'.requested = gen.requested + 1
              /\ Len(gen'.issued) <= Len(gen.issued) + 1]_vars

\* the consumer asked for two pages and holds the second, whose link names a
\* further page: that page has not been requested
NextPageNotFetchedAhead ==
    /\ gen.status = "suspended"
    /\ gen.requested = 2
    /\ Len(gen.issued) = 2
    /\ Len(gen.yielded) = 2
    /\ gen.yielded[2].response.next # 0

-----------------------------------------------------------------------------
(* The request validators: a JSON Schema compiled by fastjsonschema, and    *)
(* validate(), which turns the library's exception into MalformedRequest.   *)

\* a Python list
PyList(items) == [t |-> "list", s |-> "", d |-> items]

\* a JSON Schema node; "", {}, <<>> and -1 stand for an absent keyword
Schema(type, enum, required, properties, items, minLength, maxLength) ==
    [type |-> type, enum |-> enum, required |-> required,
     properties |-> properties, items |-> items,
     minLength |-> minLength, maxLength |-> maxLength]

StringSchema == Schema("string", {}, {}, EmptyFn, <<>>, -1, -1)
EnumSchema(values) == Schema("string", values, {}, EmptyFn, <<>>, -1, -1)
ArraySchema(items) == Schema("array", {}, {}, EmptyFn, <<items>>, -1, -1)
ObjectSchema(properties, required) ==
    Schema("object", {}, required, properties, <<>>, -1, -1)

\* the JSON type of a Python value
JsonType(v) ==
    CASE v.t = "dict" -> "object"
      [] v.t = "list" -> "array"
      [] v.t = "str" -> "string"
      [] v.t = "int" -> "integer"
      [] OTHER -> "null"

\* variant: the compiled validator does not look at `required`
RECURSIVE ConformsWithoutRequired(_, _)
ConformsWithoutRequired(schema, v) ==
    /\ schema.type = "" \/ JsonType(v) = schema.type
    /\ schema.enum = {} \/ (v.t = "str" /\ v.s \in schema.enum)
    /\ v.t = "str" =>
          /\ schema.minLength < 0 \/ Len(v.s) >= schema.minLength
          /\ schema.maxLength < 0 \/ Len(v.s) <= schema.maxLength
    /\ v.t = "dict" =>
          \A k \in DOMAIN v.d \cap DOMAIN schema.properties :
              ConformsWithoutRequired(schema.properties[k], v.d[k])
    /\ v.t = "list" =>
          \A i \in DOMAIN v.d :
              schema.items = <<>> \/ ConformsWithoutRequired(schema.items[1], v.d[i])

\* variant: maxLength is the first length that is refused
RECURSIVE ConformsBelowMaxLength(_, _)
ConformsBelowMaxLength(schema, v) ==
    /\ schema.type = "" \/ JsonType(v) = schema.type
    /\ schema.enum = {} \/ (v.t = "str" /\ v.s \in schema.enum)
    /\ v.t = "str" =>
          /\ schema.minLength < 0 \/ Len(v.s) >= schema.minLength
          /\ schema.maxLength < 0 \/ Len(v.s) < schema.maxLength
    /\ v.t = "dict" =>
          /\ schema.required \subseteq DOMAIN v.d
          /\ \A k \in DOMAIN v.d \cap DOMAIN schema.properties :
                ConformsBelowMaxLength(schema.properties[k], v.d[k])
    /\ v.t = "list" =>
          \A i \in DOMAIN v.d :
              schema.items = <<>> \/ ConformsBelowMaxLength(schema.items[1], v.d[i])

\* draft-04 validation, as the compiled validator decides it
RECURSIVE Conforms(_, _)
Conforms(schema, v) ==
    /\ schema.type = "" \/ JsonType(v) = schema.type
    /\ schema.enum = {} \/ (v.t = "str" /\ v.s \in schema.enum)
    /\ v.t = "str" =>
          /\ schema.minLength < 0 \/ Len(v.s) >= schema.minLength
          /\ schema.maxLength < 0 \/ Len(v.s) <= schema.maxLength
    /\ v.t = "dict" =>
          /\ schema.required \subseteq DOMAIN v.d
          /\ \A k \in DOMAIN v.d \cap DOMAIN schema.properties :
                Conforms(schema.properties[k], v.d[k])
    /\ v.t = "list" =>
          \A i \in DOMAIN v.d :
              schema.items = <<>> \/ Conforms(schema.items[1], v.d[i])

\* getDeviceAdminNetworkConditionById request schema
JSONSchemaValidatorE9Cc593C395C48B31B30149467C846 ==
    ObjectSchema(
        [k \in {"response", "version"} |->
            IF k = "version" THEN StringSchema
            ELSE ObjectSchema(
                [p \in {"conditionType", "conditions", "description", "id",
                        "link", "name"} |->
                    CASE p = "conditionType" ->
                            EnumSchema({"EndstationCondition", "DeviceCondition",
                                        "DevicePortCondition"})
                      [] p = "conditions" ->
                            ArraySchema(ObjectSchema(
                                [c \in {"cliDnisList", "deviceGroupList", "deviceList",
                                        "ipAddrList", "macAddrList"} |->
                                    ArraySchema(StringSchema)], {}))
                      [] p = "link" ->
                            ObjectSchema(
                                [l \in {"href", "rel", "type"} |->
                                    IF l = "rel"
                                    THEN EnumSchema({"next", "previous", "self", "status"})
                                    ELSE StringSchema],
                                {"href"})
                      [] OTHER -> StringSchema],
                {"conditionType", "name"})],
        {"response", "version"})

MinHostname == 1
MaxHostname == 64

\* getNodes request schema
JSONSchemaValidatorFa838E78175E51B4Bcfb0821C19B81B7 ==
    ObjectSchema(
        [k \in {"response"} |->
            ArraySchema(ObjectSchema(
                [p \in {"hostname", "nodeStatus", "personaType", "roles", "services"} |->
                    CASE p = "hostname" ->
                            Schema("string", {}, {}, EmptyFn, <<>>, MinHostname, MaxHostname)
                      [] p = "nodeStatus" ->
                            EnumSchema({"Connected", "Disconnected", "InProgress"})
                      [] p = "personaType" ->
                            ArraySchema(EnumSchema({"Administration", "PolicyService",
                                                    "Monitoring", "pxGrid"}))
                      [] p = "roles" ->
                            ArraySchema(EnumSchema({"PrimaryPAN", "SecondaryPAN",
                                                    "PrimaryMonitoringNode",
                                                    "SecondaryMonitoringNode"}))
                      [] OTHER ->
                            ArraySchema(EnumSchema({"Session", "Profiling", "All"}))],
                {}))],
        {})

\* the schema a compiled check was compiled from
CompiledSchema(validator) ==
    IF validator = "JSONSchemaValidatorE9Cc593C395C48B31B30149467C846"
    THEN JSONSchemaValidatorE9Cc593C395C48B31B30149467C846
    ELSE JSONSchemaValidatorFa838E78175E51B4Bcfb0821C19B81B7

\* self._validator(request): returns, or raises the library's exception
\* (JsonSchemaValueException, a JsonSchemaException)
RunCompiled(validator, request) ==
    IF Conforms(CompiledSchema(validator), request) THEN "returned"
    ELSE "JsonSchemaValueException"

\* the exceptions an `except JsonSchemaException` clause catches
JsonSchemaException == {"JsonSchemaException", "JsonSchemaValueException"}

\* variant: the except clause names the base class only, by identity
validate_base_only(validator, request) ==
    LET raised == RunCompiled(validator, request)
    IN  IF raised = "JsonSchemaException" THEN "MalformedRequest" ELSE raised

\* validate(request): how the call ends
validate(validator, request) ==
    LET raised == RunCompiled(validator, request)
    IN  IF raised \in JsonSchemaException THEN "MalformedRequest" ELSE raised

\* requests: objects written with some keys left out
Absent == [t |-> "absent", s |-> "", d |-> EmptyFn]
Obj(f) == Dict([k \in {x \in DOMAIN f : f[x].t # "absent"} |-> f[k]])

ConditionResponses ==
    {Absent, Str("response")} \cup
    {Obj([k \in {"conditionType", "name", "link", "extra"} |->
            CASE k = "conditionType" -> conditionType
              [] k = "name" -> name
              [] k = "link" -> link
              [] OTHER -> extra]) :
        conditionType \in {Absent, Str("EndstationCondition"), Str("DeviceCondition"),
                           Str("DevicePortCondition"), Str("TimeCondition"),
                           PyInt("1")},
        name \in {Absent, Str("n1"), PyInt("1")},
        link \in {Absent, D1("href", Str("/c/1")), D1("rel", Str("self")),
                  D2("href", Str("/c/1"), "rel", Str("up"))},
        extra \in {Absent, Str("x")}}

\* a request that meets the schema, with one more key at the top level or in
\* its response
ConditionRequest(key, value, inner, inside) ==
    Dict([k \in {"response", "version", key} |->
            CASE k = "version" -> Str("1.0.0")
              [] k = "response" ->
                    Dict([p \in {"conditionType", "name", inner} |->
                            CASE p = "conditionType" -> Str("DevicePortCondition")
                              [] p = "name" -> Str("n1")
                              [] OTHER -> inside])
              [] OTHER -> value])

ConditionRequests ==
    {Str("request"), PyList(<<>>),
     ConditionRequest("unknown", PyInt("1"), "name", Str("n1")),
     ConditionRequest("version", Str("1.0.0"), "description", PyInt("1")),
     ConditionRequest("version", Str("1.0.0"), "conditions",
                      PyList(<<D1("deviceList", PyList(<<Str("d1")>>))>>)),
     ConditionRequest("version", Str("1.0.0"), "conditions",
                      PyList(<<D1("deviceList", Str("d1"))>>))} \cup
    {Obj([k \in {"response", "version"} |->
            IF k = "response" THEN response ELSE version]) :
        response \in ConditionResponses,
        version \in {Absent, Str("1.0.0"), PyInt("1")}}

\* a string of n characters
RECURSIVE Chars(_)
Chars(n) == IF n = 0 THEN "" ELSE Chars(n - 1) \o "h"

Nodes ==
    {Obj([k \in {"hostname", "nodeStatus"} |->
            IF k = "hostname" THEN hostname ELSE nodeStatus]) :
        hostname \in {Absent, PyInt("7")} \cup
                     {Str(Chars(n)) : n \in {MinHostname - 1, MinHostname,
                                             MaxHostname, MaxHostname + 1,
                                             MaxHostname + 2}},
        nodeStatus \in {Absent, Str("Connected"), Str("Disconnected"),
                        Str("InProgress"), Str("Unknown")}}

NodesRequests ==
    {Str("request"), EmptyDict, D1("response", Str("nodes")),
     D1("response", PyList(<<>>)), D1("other", Str("x"))}
    \cup {D1("response", PyList(<<n>>)) : n \in Nodes}
    \cup {D1("response", PyList(<<D1("hostname", Str("a")), n>>)) : n \in Nodes}

\* the request object after the compiled check ran on it: the check writes
\* the `default` of a property the object lacks into the object
RECURSIVE AfterCheck(_, _)
AfterCheck(schema, v) ==
    CASE v.t = "dict" ->
            LET defaulted == {k \in DOMAIN schema.properties \ DOMAIN v.d :
                                 "default" \in DOMAIN schema.properties[k]}
            IN  Dict([k \in DOMAIN v.d \cup defaulted |->
                        IF k \in defaulted THEN schema.properties[k].default
                        ELSE IF k \in DOMAIN schema.properties
                             THEN AfterCheck(schema.properties[k], v.d[k])
                             ELSE v.d[k]])
      [] v.t = "list" ->
            PyList([i \in DOMAIN v.d |->
                       IF schema.items = <<>> THEN v.d[i]
                       ELSE AfterCheck(schema.items[1], v.d[i])])
      [] OTHER -> v

\* the outcome of the validate() call before this one, when it was made on the
\* same validator with the same request
Again(validator, request) ==
    IF vcheck.validator = validator /\ vcheck.request = request
    THEN [repeat |-> TRUE, outcome |-> vcheck.outcome]
    ELSE NoVerdict

\* variant: validate() compiles the schema anew on every call
CheckRecompiling(validator, request) ==
    /\ vcheck' = [validator |-> validator, request |-> request,
                  outcome |-> validate(jsd[validator]._validator, request),
                  after |-> AfterCheck(CompiledSchema(jsd[validator]._validator),
                                       request),
                  before |-> Again(validator, request)]
    /\ jsd' = [jsd EXCEPT ![validator].compiled = IF @ < 2 THEN @ + 1 ELSE @]
    /\ UNCHANGED <<api, session_headers, calls, last, gen, server>>

\* one validate() call on a validator: self._validator(request) runs the
\* check the constructor stored
Check(validator, request) ==
    /\ vcheck' = [validator |-> validator, request |-> request,
                  outcome |-> validate(jsd[validator]._validator, request),
                  after |-> AfterCheck(CompiledSchema(jsd[validator]._validator),
                                       request),
                  before |-> Again(validator, request)]
    /\ UNCHANGED <<api, session_headers, calls, last, gen, server, jsd>>

JSONSchemaValidatorE9Cc593C395C48B31B30149467C846_validate ==
    /\ jsd["JSONSchemaValidatorE9Cc593C395C48B31B30149467C846"].compiled > 0
    /\ \E request \in ConditionRequests :
          Check("JSONSchemaValidatorE9Cc593C395C48B31B30149467C846", request)

JSONSchemaValidatorFa838E78175E51B4Bcfb0821C19B81B7_validate ==
    /\ jsd["JSONSchemaValidatorFa838E78175E51B4Bcfb0821C19B81B7"].compiled > 0
    /\ \E request \in NodesRequests :
          Check("JSONSchemaValidatorFa838E78175E51B4Bcfb0821C19B81B7", request)

NextValidate ==
    \/ JSONSchemaValidatorE9Cc593C395C48B31B30149467C846_validate
    \/ JSONSchemaValidatorFa838E78175E51B4Bcfb0821C19B81B7_validate

SpecValidate == Init /\ [][NextValidate]_vars

\* __init__ of a validator class: the one fastjsonschema.compile call, whose
\* result becomes self._validator
JSONSchemaValidatorE9Cc593C395C48B31B30149467C846__init__ ==
    /\ jsd["JSONSchemaValidatorE9Cc593C395C48B31B30149467C846"].compiled = 0
    /\ jsd' = [jsd EXCEPT !["JSONSchemaValidatorE9Cc593C395C48B31B30149467C846"] =
                  Compile("JSONSchemaValidatorE9Cc593C395C48B31B30149467C846")]
    /\ UNCHANGED <<api, session_headers, calls, last, gen, server, vcheck>>

JSONSchemaValidatorFa838E78175E51B4Bcfb0821C19B81B7__init__ ==
    /\ jsd["JSONSchemaValidatorFa838E78175E51B4Bcfb0821C19B81B7"].compiled = 0
    /\ jsd' = [jsd EXCEPT !["JSONSchemaValidatorFa838E78175E51B4Bcfb0821C19B81B7"] =
                  Compile("JSONSchemaValidatorFa838E78175E51B4Bcfb0821C19B81B7")]
    /\ UNCHANGED <<api, session_headers, calls, last, gen, server, vcheck>>

InitCompile ==
    /\ api = ApiWrapper
    /\ session_headers = [k \in {"Content-Type"} |-> Str("application/json")]
    /\ calls = 0
    /\ last = NoCall
    /\ gen = NoGenerator
    /\ server = [q \in 1..MaxPages |-> 0]
    /\ vcheck = NoCheck
    /\ jsd = [v \in Validators |-> [_validator |-> "", compiled |-> 0]]

NextCompile ==
    \/ JSONSchemaValidatorE9Cc593C395C48B31B30149467C846__init__
    \/ JSONSchemaValidatorFa838E78175E51B4Bcfb0821C19B81B7__init__
    \/ JSONSchemaValidatorE9Cc593C395C48B31B30149467C846_validate
    \/ JSONSchemaValidatorFa838E78175E51B4Bcfb0821C19B81B7_validate

SpecCompile == InitCompile /\ [][NextCompile]_vars

\* C7: validate(request) raises MalformedRequest if and only if the request
\* violates the validator's compiled schema, returns otherwise, and never lets
\* the library's JsonSchemaException reach the caller.
MalformedIffViolates ==
    vcheck.validator # "" =>
        /\ vcheck.outcome \in {"returned", "MalformedRequest"}
        /\ vcheck.outcome \notin JsonSchemaException
        /\ vcheck.outcome = "MalformedRequest" <=>
              ~Conforms(CompiledSchema(vcheck.validator), vcheck.request)
        /\ vcheck.outcome = "returned" <=>
              Conforms(CompiledSchema(vcheck.validator), vcheck.request)

\* an object that breaks its schema was rejected
RequestRejected ==
    /\ vcheck.validator \in Validators
    /\ vcheck.request.t = "dict"
    /\ ~Conforms(CompiledSchema(vcheck.validator), vcheck.request)
    /\ vcheck.outcome = "MalformedRequest"

\* the value under a key of an object, Absent when there is none
Field(v, k) == IF v.t = "dict" /\ k \in DOMAIN v.d THEN v.d[k] ELSE Absent

\* an optional string, and an optional list of strings
MayBeString(v) == v.t \in {"absent", "str"}
MayBeStrings(v) ==
    \/ v.t = "absent"
    \/ v.t = "list" /\ \A i \in DOMAIN v.d : v.d[i].t = "str"

\* the constraints of the getDeviceAdminNetworkConditionById schema a request
\* can break by what it lacks or by its conditionType
ConditionViolation(request) ==
    LET response == Field(request, "response")
        conditionType == Field(response, "conditionType")
        link == Field(response, "link")
    IN  \/ request.t # "dict"
        \/ response.t = "absent"
        \/ Field(request, "version").t = "absent"
        \/ conditionType.t = "absent"
        \/ Field(response, "name").t = "absent"
        \/ ~(/\ conditionType.t = "str"
              /\ conditionType.s \in {"EndstationCondition", "DeviceCondition",
                                       "DevicePortCondition"})
        \/ link.t = "dict" /\ "href" \notin DOMAIN link.d

\* the fields the schema knows have the type it gives them
ConditionWellTyped(request) ==
    LET response == Field(request, "response")
        conditions == Field(response, "conditions")
        link == Field(response, "link")
        rel == Field(link, "rel")
    IN  /\ request.t = "dict"
        /\ MayBeString(Field(request, "version"))
        /\ response.t \in {"absent", "dict"}
        /\ MayBeString(Field(response, "conditionType"))
        /\ MayBeString(Field(response, "name"))
        /\ MayBeString(Field(response, "description"))
        /\ MayBeString(Field(response, "id"))
        /\ link.t \in {"absent", "dict"}
        /\ MayBeString(Field(link, "href"))
        /\ MayBeString(Field(link, "type"))
        /\ \/ rel.t = "absent"
           \/ rel.t = "str" /\ rel.s \in {"next", "previous", "self", "status"}
        /\ \/ conditions.t = "absent"
           \/ /\ conditions.t = "list"
              /\ \A i \in DOMAIN conditions.d :
                    /\ conditions.d[i].t = "dict"
                    /\ \A k \in {"cliDnisList", "deviceGroupList", "deviceList",
                                  "ipAddrList", "macAddrList"} :
                          MayBeStrings(Field(conditions.d[i], k))

\* C24: the getDeviceAdminNetworkConditionById validator raises
\* MalformedRequest for a request that is not an object, that lacks response
\* or version, whose response lacks conditionType or name, whose conditionType
\* is not one of the three condition types, or whose response.link lacks
\* href; it accepts every object that meets these constraints and whose known
\* fields are correctly typed, whatever unknown keys it carries.
ConditionSchemaEnforced ==
    vcheck.validator = "JSONSchemaValidatorE9Cc593C395C48B31B30149467C846" =>
        /\ ConditionViolation(vcheck.request) => vcheck.outcome = "MalformedRequest"
        /\ (~ConditionViolation(vcheck.request) /\ ConditionWellTyped(vcheck.request))
              => vcheck.outcome = "returned"
        /\ vcheck.outcome = "returned" => ~ConditionViolation(vcheck.request)

\* a request with a key the schema does not know, at the top level, was accepted
UnknownKeyAccepted ==
    /\ vcheck.validator = "JSONSchemaValidatorE9Cc593C395C48B31B30149467C846"
    /\ vcheck.request.t = "dict"
    /\ "unknown" \in DOMAIN vcheck.request.d
    /\ ~ConditionViolation(vcheck.request)
    /\ vcheck.outcome = "returned"

\* the hostname and the nodeStatus of an item of response keep to the schema
HostnameInRange(item) ==
    LET hostname == Field(item, "hostname")
    IN  \/ hostname.t = "absent"
        \/ /\ hostname.t = "str"
           /\ Len(hostname.s) >= MinHostname
           /\ Len(hostname.s) <= MaxHostname

NodeStatusKnown(item) ==
    LET nodeStatus == Field(item, "nodeStatus")
    IN  \/ nodeStatus.t = "absent"
        \/ /\ nodeStatus.t = "str"
           /\ nodeStatus.s \in {"Connected", "Disconnected", "InProgress"}

\* C25: the getNodes validator requires no field and accepts the empty
\* object; a request whose response holds an item with a hostname of length 0
\* or of length 65 or more, or with a nodeStatus outside Connected,
\* Disconnected, InProgress, raises MalformedRequest; a request whose items
\* carry nothing but hostnames of length 1 to 64 and known nodeStatus values
\* is accepted.
NodesSchemaEnforced ==
    vcheck.validator = "JSONSchemaValidatorFa838E78175E51B4Bcfb0821C19B81B7" =>
        LET response == Field(vcheck.request, "response")
        IN  /\ vcheck.request = EmptyDict => vcheck.outcome = "returned"
            /\ (vcheck.request.t = "dict" /\ response.t = "absent")
                  => vcheck.outcome = "returned"
            /\ (vcheck.request.t = "dict" /\ response.t = "list") =>
                  /\ (\E i \in DOMAIN response.d :
                         /\ Field(response.d[i], "hostname").t = "str"
                         /\ ~HostnameInRange(response.d[i]))
                        => vcheck.outcome = "MalformedRequest"
                  /\ (\E i \in DOMAIN response.d : ~NodeStatusKnown(response.d[i]))
                        => vcheck.outcome = "MalformedRequest"
                  /\ (\A i \in DOMAIN response.d :
                         /\ response.d[i].t = "dict"
                         /\ DOMAIN response.d[i].d \subseteq {"hostname", "nodeStatus"}
                         /\ HostnameInRange(response.d[i])
                         /\ NodeStatusKnown(response.d[i]))
                        => vcheck.outcome = "returned"

\* a node with a hostname of the greatest length allowed was accepted
LongestHostnameAccepted ==
    /\ vcheck.validator = "JSONSchemaValidatorFa838E78175E51B4Bcfb0821C19B81B7"
    /\ vcheck.request.t = "dict"
    /\ Field(vcheck.request, "response").t = "list"
    /\ \E i \in DOMAIN vcheck.request.d["response"].d :
          /\ Field(vcheck.request.d["response"].d[i], "hostname").t = "str"
          /\ Len(vcheck.request.d["response"].d[i].d["hostname"].s) = MaxHostname
    /\ vcheck.outcome = "returned"

====
